---- MODULE Spec2Model ----
(***************************************************************************)
(* Easy-runner: the cache store (cache_file.rs), the recompile/execute     *)
(* orchestrator (execute/mod.rs, execute/core.rs, execute/test.rs) and the *)
(* earlier single-file snapshot of the same orchestrator (execute.rs).     *)
(*                                                                         *)
(* Text is a sequence of one-character strings, so that str::trim and the  *)
(* comparisons the runner makes are computed and not assumed.  A path is a *)
(* one-element sequence holding its name, Option<T> is <<>> or <<x>>.      *)
(*                                                                         *)
(* Environment assumptions: the configured binary directory exists for the *)
(* whole run (the "Binary path not found" exits are not taken), the source *)
(* file's extension has a build command, and the terminal answers size().  *)
(***************************************************************************)
EXTENDS Integers, Sequences, FiniteSets, TLC

VARIABLES
    disk,          \* erunner_cache.json: [exists, json]
    source,        \* source file name -> its current content
    binaries,      \* source file name -> content its binary was built from, or NoBinary
    pc,            \* "idle" | "exec" | "done": position of the one invocation
    inv,           \* the invocation: entry point, file, file_cache.tests, binary dir
    jobs,          \* tests still to run: <<[main, sub_tests]>>, head is current
    ref,           \* locals of _ref_test_run_core for the current file-linked test
    score,         \* run's pass count
    retry_builds,  \* builds made by the current retry loop
    result,        \* how the invocation ended
    decision,      \* history: what the decision step of the invocation saw and did
    last,          \* history: what the latest step built, executed and reported
    writers,       \* concurrent invocations inside put_file: position, loaded document
    it,            \* a TestFileIterator: reader, buffer, stack, test_buffer, arrow_amount, states
    parsed,        \* history: the text the iterator was opened on, what next() read and yielded
    selection,     \* a selector expression and what evaluate returned for it
    template,      \* a build command template, the paths, and what the replacement made of it
    pipes          \* a child given literal input: its stdin and stdout pipes, who is where

vars == <<disk, source, binaries, pc, inv, jobs, ref, score, retry_builds, result,
          decision, last, writers, it, parsed, selection, template, pipes>>

----------------------------------------------------------------------------
(* Bounds of the model *)

\* longest tests list an add operation may produce
MaxTests == 2
\* builds one retry loop may make before the model stops following it
MaxRetryBuilds == 2
\* lines of a definition file built from records or blocks
MaxLines == 2
\* characters of a definition-file line built from single characters
MaxLineLen == 4
\* records of a definition file given to the merged iterator
MaxRecords == 3
\* characters of a selector expression built from single characters
MaxExprLen == 4
\* pieces (macros, literal characters) of a build command template
MaxPieces == 2
\* units of literal input a test supplies, units of output a child prints,
\* and units a pipe holds before a write to it blocks
MaxInput == 3
MaxOutput == 3
PipeCapacity == 2

----------------------------------------------------------------------------
(* Text *)

NL == "\n"
Whitespace == {" ", NL}

RECURSIVE trim_start(_)
trim_start(s) ==
    IF s # <<>> /\ Head(s) \in Whitespace THEN trim_start(Tail(s)) ELSE s

RECURSIVE trim_end(_)
trim_end(s) ==
    IF s # <<>> /\ s[Len(s)] \in Whitespace
    THEN trim_end(SubSeq(s, 1, Len(s) - 1))
    ELSE s

\* str::trim
trim(s) == trim_end(trim_start(s))

----------------------------------------------------------------------------
(* The world: source files, their digests, definition files *)

\* keys of the registry; invocations are made on RunFiles
FileNames == {"a.c", "b.c"}
RunFiles == {"a.c"}
Contents == {"v1", "v2"}
NoBinary == "none"

PENDING_RECOMPILATION == "PENDING_RECOMPILATION"

\* HEXUPPER.encode(sha256_digest(reader)): distinct contents give distinct
\* upper-case hex strings (shortened here), none of which is the sentinel.
target_hashed(content) ==
    CASE content = "v1" -> "6B86B273FF34FCE1"
      [] content = "v2" -> "D4735E3A265E16EE"

Some(x) == <<x>>
None == <<>>

\* Test::StringTest and Test::RefTest
StringTest(i, e) == [kind |-> "StringTest", input |-> i, expected_output |-> e]
RefTest(i, e) == [kind |-> "RefTest", input |-> i, expected_output |-> e]

\* Item of a test iterator: Ok(SimpleTest) or Err(format error)
OkItem(i, e) == [ok |-> TRUE, input |-> i, expected_output |-> e]
ErrItem == [ok |-> FALSE, input |-> <<>>, expected_output |-> <<>>]

\* The items read_test_file yields for the definition files of the project.
DefinitionFile(path) ==
    CASE path = <<"pairs.txt">> ->
            <<OkItem(<<"5">>, <<"2", "5">>), OkItem(<<"1">>, <<"7">>)>>
      [] path = <<"broken.txt">> ->
            <<OkItem(<<"5">>, <<"2", "5">>), ErrItem>>
      [] path = <<"unmatched.txt">> ->
            <<ErrItem>>
      [] path = <<"mixed.txt">> ->
            <<ErrItem, OkItem(<<"5">>, <<"2", "5">>), OkItem(<<"1">>, <<"7">>)>>
      [] path = <<"empty.txt">> ->
            <<>>
      [] OTHER -> <<>>

\* What a child process can write to stdout
Outputs == {<<"2", "5", NL>>, <<"7">>}

\* Output of a finished child: exit status and captured stdout
ChildOutputs == [success : BOOLEAN, stdout : Outputs]

\* What a build command can do: exit status, and whether the binary is there after
BuildOutcomes ==
    {o \in [success : BOOLEAN, produced : BOOLEAN] : o.produced => o.success}

\* Tests the add operations register
TestPool ==
    { StringTest(<<"5", NL>>, <<"2", "5", NL>>),
      StringTest(<<"5">>, <<"2", "5">>),
      RefTest(<<"pairs.txt">>, None),
      RefTest(<<"broken.txt">>, None) }

----------------------------------------------------------------------------
(* Cache store: cache_file.rs *)

\* serde_json::to_writer_pretty(&files): a HashMap becomes a JSON object,
\* a set of key/value members in no order.
Members(map) == {<<k, map[k]>> : k \in DOMAIN map}

\* serde_json::from_reader: a JSON object becomes a HashMap
FromMembers(obj) ==
    [k \in {m[1] : m \in obj} |-> (CHOOSE m \in obj : m[1] = k)[2]]

to_writer_pretty(files) ==
    [binary_dir_path |-> files.binary_dir_path,
     files |-> Members(files.files),
     languages_config |-> Members(files.languages_config),
     no_readme |-> files.no_readme]

from_reader(json) ==
    [binary_dir_path |-> json.binary_dir_path,
     files |-> FromMembers(json.files),
     languages_config |-> FromMembers(json.languages_config),
     no_readme |-> json.no_readme]

\* HashMap::insert
Insert(map, key, value) ==
    [k \in DOMAIN map \cup {key} |-> IF k = key THEN value ELSE map[k]]

FileCache(hash, tests) == [source_hash |-> hash, tests |-> tests]

\* get_file: Err when the document is missing, else Ok(Option<FileCache>)
get_file(d, filename) ==
    IF ~d.exists
    THEN [ok |-> FALSE, error |-> "NotFound", value |-> None]
    ELSE LET files == from_reader(d.json)
         IN  [ok |-> TRUE, error |-> "",
              value |-> IF filename \in DOMAIN files.files
                        THEN Some(files.files[filename])
                        ELSE None]

\* put_file creating the document when there is none:
\* C13_MissingDocumentIsNotFound must reject it
put_file_creating(d, filename, file_cache) ==
    LET files == IF d.exists THEN from_reader(d.json)
                 ELSE [from_reader(d.json) EXCEPT !.files = <<>>]
        updated == [files EXCEPT !.files = Insert(files.files, filename, file_cache)]
    IN  [ok |-> TRUE, error |-> "",
         disk |-> [exists |-> TRUE, json |-> to_writer_pretty(updated)]]

\* put_file storing a registry that holds the inserted key alone:
\* C10_PutFileChangesOneKey must reject it
put_file_alone(d, filename, file_cache) ==
    IF ~d.exists
    THEN [ok |-> FALSE, error |-> "NotFound", disk |-> d]
    ELSE LET files == from_reader(d.json)
             updated == [files EXCEPT !.files = Insert(<<>>, filename, file_cache)]
         IN  [ok |-> TRUE, error |-> "",
              disk |-> [exists |-> TRUE, json |-> to_writer_pretty(updated)]]

\* put_file: load the whole document, insert at one key, store the whole document
put_file(d, filename, file_cache) ==
    IF ~d.exists
    THEN [ok |-> FALSE, error |-> "NotFound", disk |-> d]
    ELSE LET files == from_reader(d.json)
             updated == [files EXCEPT !.files = Insert(files.files, filename, file_cache)]
         IN  [ok |-> TRUE, error |-> "",
              disk |-> [exists |-> TRUE, json |-> to_writer_pretty(updated)]]

\* get_config: the whole document
get_config(d) ==
    IF ~d.exists
    THEN [ok |-> FALSE, error |-> "NotFound", value |-> None]
    ELSE [ok |-> TRUE, error |-> "", value |-> Some(from_reader(d.json))]

\* put_config: the whole document stored in place of the one there
put_config(d, files) ==
    IF ~d.exists
    THEN [ok |-> FALSE, error |-> "NotFound", disk |-> d]
    ELSE [ok |-> TRUE, error |-> "",
          disk |-> [exists |-> TRUE, json |-> to_writer_pretty(files)]]

\* the entries of a HashMap whose keys are in `keys`
Restrict(map, keys) == [k \in DOMAIN map \cap keys |-> map[k]]

\* purge (execute/cache.rs): unless the answer read is not `Y`, the document
\* stored with no entries
purge(d, answer) ==
    LET purged(config) ==
            IF ~config.ok THEN [ok |-> FALSE, error |-> config.error, disk |-> d]
            ELSE put_config(d, [config.value[1] EXCEPT !.files = <<>>])
    IN  IF trim(answer) # <<"Y">> THEN [ok |-> TRUE, error |-> "", disk |-> d]
        ELSE purged(get_config(d))

\* clean (execute/cache.rs): the document stored with the entries whose key
\* `Path::new(&filename).exists()`, a path taken from the current directory;
\* `existing` are the one-component paths that exist there
clean(d, existing) ==
    LET cleaned(config) ==
            IF ~config.ok THEN [ok |-> FALSE, error |-> config.error, disk |-> d]
            ELSE put_config(d, [config.value[1] EXCEPT !.files = Restrict(@, existing)])
    IN  cleaned(get_config(d))

----------------------------------------------------------------------------
(* Build and execution: execute/core.rs, and their earlier forms in execute.rs *)

\* src_path.extension() of the source files of the project
extension(filename) ==
    CASE filename = "a.c" -> "c"
      [] filename = "b.c" -> "c"
      [] OTHER -> ""

\* recompile_binary (execute/core.rs): Err when the configuration cannot be
\* read or has no command for the extension; else the command is spawned and
\* the result is Ok iff it exits with status zero.
recompile_binary(d, filename, outcome) ==
    LET config == get_config(d)
    IN  IF ~config.ok
        THEN [ok |-> FALSE, spawned |-> FALSE]
        ELSE IF extension(filename) \notin DOMAIN config.value[1].languages_config
        THEN [ok |-> FALSE, spawned |-> FALSE]
        ELSE [ok |-> outcome.success, spawned |-> TRUE]

\* recompile_binary (execute.rs): prints the compiler's verdict and returns
\* Ok(()) whatever the exit status.
execute_rs_recompile_binary(d, filename, outcome) ==
    LET config == get_config(d)
    IN  IF ~config.ok
        THEN [ok |-> FALSE, spawned |-> FALSE]
        ELSE IF extension(filename) \notin DOMAIN config.value[1].languages_config
        THEN [ok |-> FALSE, spawned |-> FALSE]
        ELSE [ok |-> TRUE, spawned |-> TRUE]

\* The binary directory after a build command ran on the current source
\* ($(BIN_DIR)/$(FILENAME).$(EXE_EXT) is written by the command, or not).
after_build(bins, srcs, filename, build, outcome) ==
    IF build.spawned /\ outcome.produced
    THEN [bins EXCEPT ![filename] = srcs[filename]]
    ELSE bins

\* execute_binary taking any exit status of the child for a success:
\* C7_FailedChildFailsItsTestOnly must reject it
execute_binary_any_exit(bins, filename, child) ==
    IF bins[filename] = NoBinary
    THEN [status |-> "NeedRecompilation", stdout |-> <<>>]
    ELSE [status |-> "Successful", stdout |-> child.stdout]

\* execute_binary (execute/core.rs): NeedRecompilation when the binary is not
\* in the binary directory, else the child's exit status decides.
execute_binary(bins, filename, child) ==
    IF bins[filename] = NoBinary
    THEN [status |-> "NeedRecompilation", stdout |-> <<>>]
    ELSE IF child.success
    THEN [status |-> "Successful", stdout |-> child.stdout]
    ELSE [status |-> "Failed", stdout |-> <<>>]

\* excute_binary (execute.rs): when the binary is absent the entry is stored
\* with the sentinel hash (tests kept, or empty for an unknown file) and None
\* is returned; else Some(output) whatever the exit status.
excute_binary(d, bins, filename, child) ==
    IF bins[filename] = NoBinary
    THEN LET found == get_file(d, filename)
             stored == IF found.ok /\ found.value # None
                       THEN put_file(d, filename,
                                FileCache(PENDING_RECOMPILATION, found.value[1].tests))
                       ELSE put_file(d, filename,
                                FileCache(PENDING_RECOMPILATION, <<>>))
         IN  [ok |-> stored.ok, output |-> None, disk |-> stored.disk]
    ELSE [ok |-> TRUE, output |-> Some(child), disk |-> d]

----------------------------------------------------------------------------
(* The decision step of the run entry points *)

\* test_run_decision whose hit does not compare the hashes:
\* C1_BuildIffStale must reject it
test_run_decision_any_hash(d, filename, target, force_recompile, outcome) ==
    LET found == get_file(d, filename)
        hit == found.ok /\ found.value # None /\ ~force_recompile
        tests == IF found.ok /\ found.value # None THEN found.value[1].tests ELSE <<>>
        build == recompile_binary(d, filename, outcome)
        stored == put_file(d, filename, FileCache(target, tests))
    IN  IF hit
        THEN [ok |-> TRUE, error |-> "", build |-> [ok |-> TRUE, spawned |-> FALSE],
              disk |-> d, tests |-> tests]
        ELSE IF ~build.ok
        THEN [ok |-> FALSE, error |-> "CompilationError", build |-> build,
              disk |-> d, tests |-> tests]
        ELSE [ok |-> stored.ok, error |-> IF stored.ok THEN "" ELSE "Io",
              build |-> build, disk |-> stored.disk, tests |-> tests]

\* test_run_decision storing an empty tests list after the build:
\* C3_SentinelForcesRebuild must reject it
test_run_decision_no_tests(d, filename, target, force_recompile, outcome) ==
    LET found == get_file(d, filename)
        hit == found.ok /\ found.value # None
               /\ found.value[1].source_hash = target /\ ~force_recompile
        tests == IF found.ok /\ found.value # None THEN found.value[1].tests ELSE <<>>
        build == recompile_binary(d, filename, outcome)
        stored == put_file(d, filename, FileCache(target, <<>>))
    IN  IF hit
        THEN [ok |-> TRUE, error |-> "", build |-> [ok |-> TRUE, spawned |-> FALSE],
              disk |-> d, tests |-> tests]
        ELSE IF ~build.ok
        THEN [ok |-> FALSE, error |-> "CompilationError", build |-> build,
              disk |-> d, tests |-> tests]
        ELSE [ok |-> stored.ok, error |-> IF stored.ok THEN "" ELSE "Io",
              build |-> build, disk |-> stored.disk, tests |-> <<>>]

\* test::run and test::run_at (execute/test.rs, the same match in both):
\* hit / entry with another hash or forced / no entry
test_run_decision(d, filename, target, force_recompile, outcome) ==
    LET found == get_file(d, filename)
        hit == found.ok /\ found.value # None
               /\ found.value[1].source_hash = target /\ ~force_recompile
        tests == IF found.ok /\ found.value # None THEN found.value[1].tests ELSE <<>>
        build == recompile_binary(d, filename, outcome)
        stored == put_file(d, filename, FileCache(target, tests))
    IN  IF hit
        THEN [ok |-> TRUE, error |-> "", build |-> [ok |-> TRUE, spawned |-> FALSE],
              disk |-> d, tests |-> tests]
        ELSE IF ~build.ok
        THEN [ok |-> FALSE, error |-> "CompilationError", build |-> build,
              disk |-> d, tests |-> tests]
        ELSE [ok |-> stored.ok, error |-> IF stored.ok THEN "" ELSE "Io",
              build |-> build, disk |-> stored.disk, tests |-> tests]

\* run (execute/mod.rs): the same three branches, without force_recompile
run_decision(d, filename, target, outcome) ==
    LET found == get_file(d, filename)
        hit == found.ok /\ found.value # None /\ found.value[1].source_hash = target
        tests == IF found.ok /\ found.value # None THEN found.value[1].tests ELSE <<>>
        build == recompile_binary(d, filename, outcome)
        stored == put_file(d, filename, FileCache(target, tests))
    IN  IF hit
        THEN [ok |-> TRUE, error |-> "", build |-> [ok |-> TRUE, spawned |-> FALSE],
              disk |-> d, tests |-> tests]
        ELSE IF ~build.ok
        THEN [ok |-> FALSE, error |-> "CompilationError", build |-> build,
              disk |-> d, tests |-> tests]
        ELSE [ok |-> stored.ok, error |-> IF stored.ok THEN "" ELSE "Io",
              build |-> build, disk |-> stored.disk, tests |-> tests]

\* test::run (execute.rs): the same three branches on the earlier recompile_binary
execute_rs_test_run_decision(d, filename, target, outcome) ==
    LET found == get_file(d, filename)
        hit == found.ok /\ found.value # None /\ found.value[1].source_hash = target
        tests == IF found.ok /\ found.value # None THEN found.value[1].tests ELSE <<>>
        build == execute_rs_recompile_binary(d, filename, outcome)
        stored == put_file(d, filename, FileCache(target, tests))
    IN  IF hit
        THEN [ok |-> TRUE, error |-> "", build |-> [ok |-> TRUE, spawned |-> FALSE],
              disk |-> d, tests |-> tests]
        ELSE IF ~build.ok
        THEN [ok |-> FALSE, error |-> "Io", build |-> build,
              disk |-> d, tests |-> tests]
        ELSE [ok |-> stored.ok, error |-> IF stored.ok THEN "" ELSE "Io",
              build |-> build, disk |-> stored.disk, tests |-> tests]

----------------------------------------------------------------------------
(* Test iterators and comparisons: execute/test.rs, test_file.rs *)

\* MergedTestFileTterator::next over two streams: pairs the k-th items until
\* either stream ends; an Err on either side is yielded as Err
RECURSIVE merge_test_file(_, _)
merge_test_file(ins, outs) ==
    IF ins = <<>> \/ outs = <<>>
    THEN <<>>
    ELSE <<IF Head(ins).ok /\ Head(outs).ok
           THEN OkItem(Head(ins).input, Head(outs).input)
           ELSE ErrItem>>
         \o merge_test_file(Tail(ins), Tail(outs))

\* _test_iterator: one definition file, or the merge of an input and an output file
_test_iterator(input_path, expected_output_path) ==
    IF expected_output_path = None
    THEN DefinitionFile(input_path)
    ELSE merge_test_file(DefinitionFile(input_path),
                         DefinitionFile(expected_output_path[1]))

\* run_core, StringTest arm: `expected_output != output.trim()` decides
string_test_status(expected_output, stdout) ==
    expected_output = trim(stdout)

\* _ref_test_run_core: `expected_output.trim() == output_str.trim()`
ref_test_status(expected_output, stdout) ==
    trim(expected_output) = trim(stdout)

\* RangeInclusive::contains taken for Range::contains
contains_exclusive(range, n) == range[1] <= n /\ n < range[2]

\* RangeInclusive::contains with the start of the range left out
contains_upto(range, n) == n <= range[2]

\* RangeInclusive::contains
contains(range, n) == range[1] <= n /\ n <= range[2]

\* TestsRange
TestsRange(main, sub) == [main_test |-> main, sub_tests |-> sub]

\* The selectors evaluate() returns for the expressions "1", "1.2,2", "3",
\* "1.1-1.2" and "0"
Selections ==
    { <<TestsRange(1, None)>>,
      <<TestsRange(1, Some(<<2, 2>>)), TestsRange(2, None)>>,
      <<TestsRange(3, None)>>,
      <<TestsRange(1, Some(<<1, 2>>))>>,
      <<TestsRange(0, None)>> }

\* `for (index, test) in file_cache.tests.iter().enumerate()`
AllTests(tests) == [i \in 1..Len(tests) |-> TestsRange(i, None)]

\* locals of _ref_test_run_core before its loop
RefInit ==
    [inner_index |-> 0, inner_score |-> 0, total_inner_tests |-> 0,
     tests_pass |-> TRUE, only_run_at_ran |-> FALSE, detailed_status |-> <<>>]

\* the result counting in total_test the records the loop passed over
ref_test_result_counting_skipped(r, run_range) ==
    IF run_range # None /\ ~r.only_run_at_ran
    THEN [status |-> FALSE, total_test |-> 0, passed_test |-> 0,
          detailed_status |-> r.detailed_status]
    ELSE [status |-> r.tests_pass, total_test |-> r.inner_index,
          passed_test |-> r.inner_score, detailed_status |-> r.detailed_status]

\* RunResult::RefTest returned by _ref_test_run_core after its loop
ref_test_result(r, run_range) ==
    IF run_range # None /\ ~r.only_run_at_ran
    THEN [status |-> FALSE, total_test |-> 0, passed_test |-> 0,
          detailed_status |-> r.detailed_status]
    ELSE [status |-> r.tests_pass, total_test |-> r.total_inner_tests,
          passed_test |-> r.inner_score, detailed_status |-> r.detailed_status]

----------------------------------------------------------------------------
(* The test-definition parser: test_file.rs *)

\* SimpleTest::new
SimpleTest(input, expected_output) ==
    [input |-> input, expected_output |-> expected_output]

\* TestFileIterator::new: the states map and the other fields
DefaultStates == [standalone |-> FALSE, trim |-> TRUE, explicit_newline |-> FALSE]

TestFileIterator_new(lines) ==
    [reader |-> lines, buffer |-> <<>>, stack |-> 0,
     test_buffer |-> SimpleTest(<<>>, <<>>), arrow_amount |-> 0,
     states |-> DefaultStates]

\* the keys of the states map, as text
STANDALONE == <<"s", "t", "a", "n", "d", "a", "l", "o", "n", "e">>
TRIM == <<"t", "r", "i", "m">>
EXPLICIT_NEWLINE ==
    <<"e", "x", "p", "l", "i", "c", "i", "t", "-", "n", "e", "w", "l", "i", "n", "e">>

\* str::to_lowercase, on the letters of the modifiers
to_lowercase(s) ==
    [i \in 1..Len(s) |->
        CASE s[i] = "A" -> "a" [] s[i] = "B" -> "b" [] s[i] = "D" -> "d"
          [] s[i] = "E" -> "e" [] s[i] = "I" -> "i" [] s[i] = "L" -> "l"
          [] s[i] = "N" -> "n" [] s[i] = "S" -> "s"
          [] OTHER -> s[i]]

\* ModifierState::from_str without the "disable" arm
ModifierState_from_str_no_disable(string) ==
    CASE to_lowercase(string) = <<"e", "n", "a", "b", "l", "e">> -> "Enable"
      [] OTHER -> "Same"

\* ModifierState::from_str
ModifierState_from_str(string) ==
    CASE to_lowercase(string) = <<"d", "i", "s", "a", "b", "l", "e">> -> "Disable"
      [] to_lowercase(string) = <<"e", "n", "a", "b", "l", "e">> -> "Enable"
      [] OTHER -> "Same"

\* str::find: index (from 1) of the first occurrence of chr, 0 when there is none
find(s, chr) ==
    IF \E i \in 1..Len(s) : s[i] = chr
    THEN CHOOSE i \in 1..Len(s) : s[i] = chr /\ \A j \in 1..(i - 1) : s[j] # chr
    ELSE 0

\* `line.trim().starts_with('#')`
is_state_modifier(line) == trim(line) # <<>> /\ Head(trim(line)) = "#"

\* the directive branch of next: full_state, split_once(':'), states.get_mut
modify_states(states, line) ==
    LET full_state == SubSeq(line, find(line, "#") + 1, Len(line))
        colon == find(full_state, ":")
        modifier_state == IF colon # 0
                          THEN ModifierState_from_str(SubSeq(full_state, 1, colon - 1))
                          ELSE "Enable"
        state == IF colon # 0
                 THEN trim(SubSeq(full_state, colon + 1, Len(full_state)))
                 ELSE full_state
        value(old) == CASE modifier_state = "Enable" -> TRUE
                        [] modifier_state = "Disable" -> FALSE
                        [] OTHER -> old
    IN  CASE state = STANDALONE -> [states EXCEPT !.standalone = value(@)]
          [] state = TRIM -> [states EXCEPT !.trim = value(@)]
          [] state = EXPLICIT_NEWLINE -> [states EXCEPT !.explicit_newline = value(@)]
          [] OTHER -> states

\* str::split('\n')
RECURSIVE split_lines(_)
split_lines(s) ==
    LET at == find(s, NL)
    IN  IF at = 0 THEN <<s>>
        ELSE <<SubSeq(s, 1, at - 1)>> \o split_lines(SubSeq(s, at + 1, Len(s)))

\* join("\n")
RECURSIVE join_lines(_)
join_lines(parts) ==
    IF Len(parts) = 1 THEN parts[1]
    ELSE parts[1] \o <<NL>> \o join_lines(Tail(parts))

\* `inner_buffer.trim().split('\n').map(|line| line.trim()).collect().join("\n")`
trim_inner_buffer(buffer) ==
    LET trimmed(parts) == join_lines([i \in 1..Len(parts) |-> trim(parts[i])])
    IN  trimmed(split_lines(trim(buffer)))

\* history: what next() did with one character (chr "" is the end of a line)
Scanned(iter, chr, follows, ignored, pushed, block, used, outcome) ==
    [chr |-> chr, follows |-> follows, ignored |-> ignored,
     stack |-> iter.stack, states |-> iter.states,
     input |-> iter.test_buffer.input, arrow_amount |-> iter.arrow_amount,
     buffer |-> iter.buffer, pushed |-> pushed,
     block |-> block, used |-> used, outcome |-> outcome]

\* what one character did: the iterator after it goes on scanning ...
Scanning(moved, pushed) ==
    [it |-> moved, returned |-> FALSE, item |-> ErrItem, ignore_next |-> FALSE,
     pushed |-> pushed, block |-> <<>>, used |-> <<>>, outcome |-> ""]

\* ... or next() returns the item
Returning(moved, item, block, used, outcome) ==
    [it |-> moved, returned |-> TRUE, item |-> item, ignore_next |-> FALSE,
     pushed |-> <<>>, block |-> block, used |-> used, outcome |-> outcome]

\* String::push on the buffer
push(iter, chr) == [iter EXCEPT !.buffer = Append(@, chr)]

\* '{'
scan_open(iter) == Scanning([iter EXCEPT !.stack = @ + 1], <<>>)

\* '-': an arrow when '>' follows, content inside a block when another
\* character follows, nothing when the line ends
scan_dash(iter, follows) ==
    IF follows = None THEN Scanning(iter, <<>>)
    ELSE IF follows[1] = ">"
    THEN Scanning([iter EXCEPT !.arrow_amount = @ + 1], <<>>)
    ELSE IF iter.stack >= 1 THEN Scanning(push(iter, "-"), <<"-">>)
    ELSE Scanning(iter, <<>>)

\* '\\': content inside a block when explicit-newline is off; else a
\* newline when 'n' follows (pushed whatever the stack), content inside a
\* block when another character follows, nothing when the line ends
scan_backslash(iter, follows) ==
    IF ~iter.states.explicit_newline
    THEN IF iter.stack >= 1 THEN Scanning(push(iter, "\\"), <<"\\">>)
         ELSE Scanning(iter, <<>>)
    ELSE IF follows = None THEN Scanning(iter, <<>>)
    ELSE IF follows[1] = "n"
    THEN [Scanning(push(iter, NL), <<NL>>) EXCEPT !.ignore_next = TRUE]
    ELSE IF iter.stack >= 1 THEN Scanning(push(iter, "\\"), <<"\\">>)
    ELSE Scanning(iter, <<>>)

\* the text of a block that closed, the trim state not looked at
inner_buffer_always_trimmed(iter) == trim_inner_buffer(iter.buffer)

\* the text of a block that closed, as it is used
inner_buffer(iter) ==
    IF iter.states.trim THEN trim_inner_buffer(iter.buffer) ELSE iter.buffer

\* '}' with the Ordering::Less arm left out: an unmatched bracket goes unnoticed
scan_close_unmatched_ignored(iter) ==
    LET closed == [iter EXCEPT !.stack = @ - 1]
        fresh == [closed EXCEPT !.test_buffer = SimpleTest(<<>>, <<>>),
                                !.arrow_amount = 0, !.buffer = <<>>]
        close(used) ==
            IF closed.stack # 0 THEN Scanning(closed, <<>>)
            ELSE IF iter.test_buffer.input = <<>>
            THEN IF iter.states.standalone
                 THEN Returning(fresh, OkItem(used, <<>>), iter.buffer, used, "record")
                 ELSE [Scanning([closed EXCEPT !.test_buffer.input = used,
                                               !.arrow_amount = 0, !.buffer = <<>>], <<>>)
                       EXCEPT !.block = iter.buffer, !.used = used, !.outcome = "input"]
            ELSE IF iter.test_buffer.expected_output = <<>> /\ iter.arrow_amount = 1
            THEN Returning(fresh, OkItem(iter.test_buffer.input, used),
                           iter.buffer, used, "record")
            ELSE IF iter.test_buffer.expected_output = <<>> /\ iter.arrow_amount # 1
            THEN Returning(closed, ErrItem, iter.buffer, used, "must once be piped")
            ELSE Scanning(closed, <<>>)
    IN  close(inner_buffer(iter))

\* '}' taking a block for the input only when no arrow was counted, and for
\* the expected output after one arrow whatever the input text held
scan_close_by_arrows(iter) ==
    LET closed == [iter EXCEPT !.stack = @ - 1]
        fresh == [closed EXCEPT !.test_buffer = SimpleTest(<<>>, <<>>),
                                !.arrow_amount = 0, !.buffer = <<>>]
        close(used) ==
            IF closed.stack < 0
            THEN Returning(closed, ErrItem, iter.buffer, used, "Bracket not matched")
            ELSE IF closed.stack > 0 THEN Scanning(closed, <<>>)
            ELSE IF iter.test_buffer.input = <<>> /\ iter.arrow_amount = 0
            THEN IF iter.states.standalone
                 THEN Returning(fresh, OkItem(used, <<>>), iter.buffer, used, "record")
                 ELSE [Scanning([closed EXCEPT !.test_buffer.input = used,
                                               !.arrow_amount = 0, !.buffer = <<>>], <<>>)
                       EXCEPT !.block = iter.buffer, !.used = used, !.outcome = "input"]
            ELSE IF iter.test_buffer.expected_output = <<>> /\ iter.arrow_amount = 1
            THEN Returning(fresh, OkItem(iter.test_buffer.input, used),
                           iter.buffer, used, "record")
            ELSE IF iter.test_buffer.expected_output = <<>> /\ iter.arrow_amount # 1
            THEN Returning(closed, ErrItem, iter.buffer, used, "must once be piped")
            ELSE Scanning(closed, <<>>)
    IN  close(inner_buffer(iter))

\* '}'
scan_close(iter) ==
    LET closed == [iter EXCEPT !.stack = @ - 1]
        fresh == [closed EXCEPT !.test_buffer = SimpleTest(<<>>, <<>>),
                                !.arrow_amount = 0, !.buffer = <<>>]
        close(used) ==
            IF closed.stack < 0
            THEN Returning(closed, ErrItem, iter.buffer, used, "Bracket not matched")
            ELSE IF closed.stack > 0 THEN Scanning(closed, <<>>)
            ELSE IF iter.test_buffer.input = <<>>
            THEN IF iter.states.standalone
                 THEN Returning(fresh, OkItem(used, <<>>), iter.buffer, used, "record")
                 ELSE [Scanning([closed EXCEPT !.test_buffer.input = used,
                                               !.arrow_amount = 0, !.buffer = <<>>], <<>>)
                       EXCEPT !.block = iter.buffer, !.used = used, !.outcome = "input"]
            ELSE IF iter.test_buffer.expected_output = <<>> /\ iter.arrow_amount = 1
            THEN Returning(fresh, OkItem(iter.test_buffer.input, used),
                           iter.buffer, used, "record")
            ELSE IF iter.test_buffer.expected_output = <<>> /\ iter.arrow_amount # 1
            THEN Returning(closed, ErrItem, iter.buffer, used, "must once be piped")
            ELSE Scanning(closed, <<>>)
    IN  close(inner_buffer(iter))

\* any other character
scan_other(iter, chr) ==
    IF iter.stack >= 1 THEN Scanning(push(iter, chr), <<chr>>)
    ELSE Scanning(iter, <<>>)

\* the body of `for (index, chr) in line.chars().enumerate()` for one
\* character that is not skipped: `match chr`
scan_chr(iter, chr, follows) ==
    CASE chr = "{" -> scan_open(iter)
      [] chr = "-" -> scan_dash(iter, follows)
      [] chr = "\\" -> scan_backslash(iter, follows)
      [] chr = "}" -> scan_close(iter)
      [] OTHER -> scan_other(iter, chr)

\* the end of a physical line
line_end(iter) ==
    IF iter.states.explicit_newline THEN <<>> ELSE <<NL>>

\* the for loop over the characters of one line, from the character at
\* index, then the push at the end of the line
RECURSIVE scan_line(_, _, _, _, _)
scan_line(iter, line, index, ignore_next, scanned) ==
    IF index > Len(line)
    THEN LET pushed == line_end(iter)
         IN  [it |-> [iter EXCEPT !.buffer = @ \o pushed],
              returned |-> FALSE, item |-> ErrItem, ignore_next |-> ignore_next,
              scanned |-> Append(scanned,
                             Scanned(iter, "", None, FALSE, pushed, <<>>, <<>>, ""))]
    ELSE LET chr == line[index]
             follows == IF index < Len(line) THEN Some(line[index + 1]) ELSE None
             matched(did, seen) ==
                 IF did.returned
                 THEN [it |-> did.it, returned |-> TRUE, item |-> did.item,
                       ignore_next |-> FALSE, scanned |-> seen]
                 ELSE scan_line(did.it, line, index + 1, did.ignore_next, seen)
             match(did) ==
                 matched(did, Append(scanned,
                                 Scanned(iter, chr, follows, FALSE, did.pushed,
                                    did.block, did.used, did.outcome)))
         IN  IF ignore_next
             THEN scan_line(iter, line, index + 1, FALSE,
                     Append(scanned,
                        Scanned(iter, chr, follows, TRUE, <<>>, <<>>, <<>>, "")))
             ELSE match(scan_chr(iter, chr, follows))

\* TestFileIterator::next: `while let Some(line) = self.reader.by_ref().lines().next()`;
\* a line that was being scanned when next() returned is not read again
RECURSIVE next_from(_, _, _)
next_from(iter, ignore_next, scanned) ==
    IF iter.reader = <<>>
    THEN [it |-> iter, item |-> None, scanned |-> scanned]
    ELSE LET line == Head(iter.reader)
             rest == [iter EXCEPT !.reader = Tail(@)]
         IN  IF is_state_modifier(line)
             THEN next_from([rest EXCEPT !.states = modify_states(@, line)],
                            ignore_next, scanned)
             ELSE LET scanning(did) ==
                          IF did.returned
                          THEN [it |-> did.it, item |-> Some(did.item),
                                scanned |-> did.scanned]
                          ELSE next_from(did.it, did.ignore_next, did.scanned)
                  IN  scanning(scan_line(rest, line, 1, ignore_next, scanned))

\* next() that takes the end of the file inside an open block for an error
TestFileIterator_next_open_is_error(iter) ==
    LET ended(did) ==
            IF did.item = None /\ did.it.stack > 0
            THEN [did EXCEPT !.item = Some(ErrItem)]
            ELSE did
    IN  ended(next_from(iter, FALSE, <<>>))

\* next() that keeps what is left of the line it returned in, and reads it
\* on the following call
TestFileIterator_next_resuming(iter) ==
    LET resumed(did, line, line_ends) ==
            LET at == Len(did.scanned)
                     - (IF line_ends = {} THEN 0
                        ELSE CHOOSE i \in line_ends : \A j \in line_ends : j <= i)
            IN  IF at < Len(line)
                THEN [did EXCEPT !.it.reader = <<SubSeq(line, at + 1, Len(line))>> \o @]
                ELSE did
        returned(did) ==
            IF did.item = None THEN did
            ELSE resumed(did, iter.reader[Len(iter.reader) - Len(did.it.reader)],
                         {i \in 1..Len(did.scanned) : did.scanned[i].chr = ""})
    IN  returned(next_from(iter, FALSE, <<>>))

TestFileIterator_next(iter) == next_from(iter, FALSE, <<>>)

\* every item the iterator yields on a text, as a caller's for loop takes them
RECURSIVE collect(_)
collect(iter) ==
    LET did == TestFileIterator_next(iter)
    IN  IF did.item = None THEN <<>> ELSE <<did.item[1]>> \o collect(did.it)

\* MergedTestFileTterator::new
MergedTestFileTterator_new(input_test_file_iterator, output_test_file_iterator) ==
    [input_iterator |-> input_test_file_iterator,
     output_iterator |-> output_test_file_iterator]

\* the match of MergedTestFileTterator::next on the two results
merged(input_result, output_result) ==
    IF input_result.ok /\ output_result.ok
    THEN OkItem(input_result.input, output_result.input)
    ELSE ErrItem

\* MergedTestFileTterator::next that takes from the output iterator whether
\* or not the input iterator is exhausted, and pads the missing side
MergedTestFileTterator_next_padding(iter) ==
    LET pad(item) == IF item = None THEN OkItem(<<>>, <<>>) ELSE item[1]
        both(input, output) ==
            [it |-> [input_iterator |-> input.it, output_iterator |-> output.it],
             item |-> IF input.item = None /\ output.item = None THEN None
                      ELSE Some(merged(pad(input.item), pad(output.item)))]
    IN  both(TestFileIterator_next(iter.input_iterator),
             TestFileIterator_next(iter.output_iterator))

\* MergedTestFileTterator::next: `?` on each side's next(), the input side first
MergedTestFileTterator_next(iter) ==
    LET paired(input, output) ==
            [it |-> [input_iterator |-> input.it, output_iterator |-> output.it],
             item |-> IF output.item = None THEN None
                      ELSE Some(merged(input.item[1], output.item[1]))]
        taken(input) ==
            IF input.item = None
            THEN [it |-> [iter EXCEPT !.input_iterator = input.it], item |-> None]
            ELSE paired(input, TestFileIterator_next(iter.output_iterator))
    IN  taken(TestFileIterator_next(iter.input_iterator))

\* no definition file is open
NoIterator == TestFileIterator_new(<<>>)
NoParsed == [text |-> <<>>, items |-> <<>>, scanned |-> <<>>, ended |-> FALSE]

-----------------------------------------------------------------------------
(* Selector expressions: selector_evaluator.rs *)

\* usize::MAX, of a target with 16-bit pointers
usize_MAX == 65535

Digits == <<"0", "1", "2", "3", "4", "5", "6", "7", "8", "9">>
is_digit(chr) == \E d \in 1..10 : Digits[d] = chr
digit(chr) == (CHOOSE d \in 1..10 : Digits[d] = chr) - 1

\* the number the decimal digits of s write, capped above usize::MAX
RECURSIVE decimal(_)
decimal(s) ==
    IF s = <<>> THEN 0
    ELSE LET more(high) ==
                 IF high * 10 + digit(s[Len(s)]) > usize_MAX THEN usize_MAX + 1
                 ELSE high * 10 + digit(s[Len(s)])
         IN  more(decimal(SubSeq(s, 1, Len(s) - 1)))

\* str::parse::<usize>: decimal digits after an optional `+`, in range
parse_usize(s) ==
    LET digits == IF s # <<>> /\ s[1] = "+" THEN Tail(s) ELSE s
    IN  IF digits = <<>> \/ \E i \in 1..Len(digits) : ~is_digit(digits[i])
        THEN [ok |-> FALSE, value |-> 0]
        ELSE IF decimal(digits) > usize_MAX THEN [ok |-> FALSE, value |-> 0]
        ELSE [ok |-> TRUE, value |-> decimal(digits)]

\* str::split(chr)
RECURSIVE split(_, _)
split(s, chr) ==
    IF find(s, chr) = 0 THEN <<s>>
    ELSE <<SubSeq(s, 1, find(s, chr) - 1)>>
         \o split(SubSeq(s, find(s, chr) + 1, Len(s)), chr)

\* RangeEvaluationError
InvalidRangeFormat(part) == [ok |-> FALSE, error |-> "InvalidRangeFormat", part |-> part]
InvalidNumber(part) == [ok |-> FALSE, error |-> "InvalidNumber", part |-> part]
OkRanges(ranges) == [ok |-> TRUE, value |-> ranges]

\* a panic of the evaluator: `attempt to add with overflow`
Panicked == [ok |-> FALSE, error |-> "panic", part |-> <<"attempt to add with overflow">>]

\* the messages InvalidRangeFormat is built with, each one token of text
RangeMessage == <<"Range must have exactly one '-'">>
RefTestMessage == <<"Ref-test format must have exactly one '.'">>

\* `(main_start + 1)..=main_end` mapped to whole tests
RECURSIVE between_inclusive(_, _)
between_inclusive(from, end) ==
    IF from > end THEN <<>>
    ELSE <<TestsRange(from, None)>> \o between_inclusive(from + 1, end)

\* `(main_start + 1)..main_end` mapped to whole tests
RECURSIVE between(_, _)
between(from, end) ==
    IF from >= end THEN <<>>
    ELSE <<TestsRange(from, None)>> \o between(from + 1, end)

\* process_expression, the branch of an expression with a '-'
process_range(expression) ==
    LET parts == split(expression, "-")
        left_parts == split(parts[1], ".")
        right_parts == split(parts[2], ".")
        \* `main_start + 1` is a usize sum: past usize::MAX it panics in a
        \* build with overflow checks and wraps to 0 in a build without
        ranges(main_start, main_end, sub_start, sub_end) ==
            IF main_start = main_end
            THEN OkRanges(<<TestsRange(main_start, Some(<<sub_start, sub_end>>))>>)
            ELSE IF main_start = usize_MAX /\ selection.overflow_checks
            THEN Panicked
            ELSE OkRanges(<<TestsRange(main_start, Some(<<sub_start, usize_MAX>>))>>
                          \o between((main_start + 1) % (usize_MAX + 1), main_end)
                          \o <<TestsRange(main_end, Some(<<1, sub_end>>))>>)
        subs(main_start, main_end, sub_start, sub_end) ==
            IF Len(left_parts) = 2 /\ ~sub_start.ok THEN InvalidNumber(left_parts[2])
            ELSE IF Len(right_parts) = 2 /\ ~sub_end.ok THEN InvalidNumber(right_parts[2])
            ELSE ranges(main_start.value, main_end.value,
                        IF Len(left_parts) = 2 THEN sub_start.value ELSE 1,
                        IF Len(right_parts) = 2 THEN sub_end.value ELSE usize_MAX)
        mains(main_start, main_end) ==
            IF ~main_start.ok THEN InvalidNumber(left_parts[1])
            ELSE IF ~main_end.ok THEN InvalidNumber(right_parts[1])
            ELSE subs(main_start, main_end,
                      IF Len(left_parts) = 2 THEN parse_usize(left_parts[2])
                      ELSE [ok |-> TRUE, value |-> 1],
                      IF Len(right_parts) = 2 THEN parse_usize(right_parts[2])
                      ELSE [ok |-> TRUE, value |-> usize_MAX])
    IN  IF Len(parts) # 2 THEN InvalidRangeFormat(RangeMessage)
        ELSE mains(parse_usize(left_parts[1]), parse_usize(right_parts[1]))

\* the '.' branch giving the sub-tests from the first to the one named
process_ref_test_from_first(expression) ==
    LET parts == split(expression, ".")
        single(main_test, sub_test) ==
            IF ~main_test.ok THEN InvalidNumber(parts[1])
            ELSE IF ~sub_test.ok THEN InvalidNumber(parts[2])
            ELSE OkRanges(<<TestsRange(main_test.value, Some(<<1, sub_test.value>>))>>)
    IN  IF Len(parts) # 2 THEN InvalidRangeFormat(RefTestMessage)
        ELSE single(parse_usize(parts[1]), parse_usize(parts[2]))

\* process_expression, the branch of an expression with a '.' and no '-'
process_ref_test(expression) ==
    LET parts == split(expression, ".")
        single(main_test, sub_test) ==
            IF ~main_test.ok THEN InvalidNumber(parts[1])
            ELSE IF ~sub_test.ok THEN InvalidNumber(parts[2])
            ELSE OkRanges(<<TestsRange(main_test.value,
                                       Some(<<sub_test.value, sub_test.value>>))>>)
    IN  IF Len(parts) # 2 THEN InvalidRangeFormat(RefTestMessage)
        ELSE single(parse_usize(parts[1]), parse_usize(parts[2]))

\* process_expression, the branch of a single main test
process_main_test(expression) ==
    LET single(single_test) ==
            IF ~single_test.ok THEN InvalidNumber(expression)
            ELSE OkRanges(<<TestsRange(single_test.value, None)>>)
    IN  single(parse_usize(expression))

process_expression(expression) ==
    IF find(expression, "-") # 0 THEN process_range(expression)
    ELSE IF find(expression, ".") # 0 THEN process_ref_test(expression)
    ELSE process_main_test(expression)

\* the for loop of evaluate going on after a piece that is an error
RECURSIVE evaluate_from_skipping(_, _, _)
evaluate_from_skipping(pieces, index, result_expressions) ==
    IF index > Len(pieces) THEN OkRanges(result_expressions)
    ELSE LET appended(processed) ==
                 evaluate_from_skipping(pieces, index + 1,
                    IF processed.ok THEN result_expressions \o processed.value
                    ELSE result_expressions)
         IN  appended(process_expression(trim(pieces[index])))

\* evaluate: the for loop from the index-th piece on
RECURSIVE evaluate_from(_, _, _)
evaluate_from(pieces, index, result_expressions) ==
    IF index > Len(pieces) THEN OkRanges(result_expressions)
    ELSE LET appended(processed) ==
                 IF processed.ok
                 THEN evaluate_from(pieces, index + 1, result_expressions \o processed.value)
                 ELSE processed
         IN  appended(process_expression(trim(pieces[index])))

evaluate(expressions) == evaluate_from(split(expressions, ","), 1, <<>>)

\* no expression is being evaluated; overflow_checks is the profile the
\* evaluator was built with
NoSelection == [expressions |-> <<>>, overflow_checks |-> FALSE, evaluated |-> None]

-----------------------------------------------------------------------------
(* The command templater: cache_file.rs *)

TEMPLATE_CONFIG_BINARY_DIR == <<"$", "(", "B", "I", "N", "_", "D", "I", "R", ")">>
TEMPLATE_CONFIG_FILE == <<"$", "(", "F", "I", "L", "E", ")">>
TEMPLATE_CONFIG_FILENAME == <<"$", "(", "F", "I", "L", "E", "N", "A", "M", "E", ")">>
TEMPLATE_CONFIG_DIRNAME == <<"$", "(", "D", "I", "R", ")">>
TEMPLATE_CONFIG_DIR == <<"$", "(", "D", "I", "R", "N", "A", "M", "E", ")">>
TEMPLATE_CONFIG_EXE_EXTENSION == <<"$", "(", "E", "X", "E", "_", "E", "X", "T", ")">>

\* str::starts_with
starts_with(s, from) == Len(s) >= Len(from) /\ SubSeq(s, 1, Len(from)) = from

\* str::replace: every non-overlapping occurrence of from, left to right
RECURSIVE replace(_, _, _)
replace(s, from, to) ==
    IF s = <<>> THEN <<>>
    ELSE IF starts_with(s, from)
    THEN to \o replace(SubSeq(s, Len(from) + 1, Len(s)), from, to)
    ELSE <<Head(s)>> \o replace(Tail(s), from, to)

\* index of the last '/' of a path, 0 when it has none
last_separator(path) ==
    IF find(path, "/") = 0 THEN 0
    ELSE CHOOSE i \in 1..Len(path) :
            path[i] = "/" /\ \A j \in (i + 1)..Len(path) : path[j] # "/"

\* Path::parent of a relative path of plain components: Some("") for a single one
parent(path) ==
    IF path = <<>> THEN None
    ELSE IF last_separator(path) = 0 THEN Some(<<>>)
    ELSE Some(SubSeq(path, 1, last_separator(path) - 1))

\* Path::file_name of a relative path of plain components
file_name(path) ==
    IF path = <<>> THEN None
    ELSE Some(SubSeq(path, last_separator(path) + 1, Len(path)))

\* `if cfg!(windows) { "exe" } else { "out" }`
exe_extension(windows) == IF windows THEN <<"e", "x", "e">> ELSE <<"o", "u", "t">>

\* template_config_replacement: the six replacements in the order of the code
template_config_replacement(config, binary_dir_path, source_path, windows) ==
    IF file_name(source_path) = None
    THEN [ok |-> FALSE, error |-> "Invalid source file stem", config |-> config]
    ELSE IF parent(source_path) = None
    THEN [ok |-> FALSE, error |-> "Invalid source file parent directory", config |-> config]
    ELSE IF file_name(parent(source_path)[1]) = None
    THEN [ok |-> FALSE, error |-> "Invalid source file parent directory name",
          config |-> config]
    ELSE [ok |-> TRUE, error |-> "",
          config |->
            replace(
              replace(
                replace(
                  replace(
                    replace(
                      replace(config, TEMPLATE_CONFIG_BINARY_DIR, binary_dir_path),
                      TEMPLATE_CONFIG_FILENAME, file_name(source_path)[1]),
                    TEMPLATE_CONFIG_FILE, source_path),
                  TEMPLATE_CONFIG_DIRNAME, file_name(parent(source_path)[1])[1]),
                TEMPLATE_CONFIG_DIR, parent(source_path)[1]),
              TEMPLATE_CONFIG_EXE_EXTENSION, exe_extension(windows))]

\* no command is being built
NoTemplate ==
    [config |-> <<>>, binary_dir_path |-> <<>>, source_path |-> <<>>,
     windows |-> FALSE, replaced |-> None]

-----------------------------------------------------------------------------
(* A child given literal input: execute/core.rs, execute.rs *)

\* no child is running
NoPipes ==
    [variant |-> "none", input |-> 0, stdin |-> 0, stdin_open |-> FALSE, stdout |-> 0,
     child |-> "exited", output |-> 0, eof |-> FALSE, parent |-> "returned",
     writer |-> "done"]

\* what a child does next: a read of stdin, a write to stdout, or its exit;
\* it writes no more than its output and reads no more after end of file
Wants(output, eof) ==
    {"exited"} \cup (IF output > 0 THEN {"writing"} ELSE {})
               \cup (IF eof THEN {} ELSE {"reading"})

\* write_all to the stdin pipe cannot go on: the pipe is full and the child
\* still holds its read end
WritingStdinBlocked ==
    /\ pipes.input > 0
    /\ pipes.stdin = PipeCapacity
    /\ pipes.child # "exited"
    /\ pipes.writer = "writing" \/ pipes.parent = "write_all"

\* the child's write to the stdout pipe cannot go on
ChildBlockedOnStdout == pipes.child = "writing" /\ pipes.stdout = PipeCapacity

----------------------------------------------------------------------------
(* Concurrent writers of the cache store: cache_file.rs *)

\* two invocations of the program in one project directory
Writers == {"first", "second"}

\* put_file up to from_reader: the whole document as the invocation loaded it
put_file_loaded(d) == from_reader(d.json)

\* put_file storing the entry into the document as the file holds it at the
\* time of the store: C12_LateStoreOverwrites must reject it
put_file_stored_fresh(d, files, filename, file_cache) ==
    [exists |-> TRUE,
     json |-> to_writer_pretty(
                 [from_reader(d.json) EXCEPT
                     !.files = Insert(from_reader(d.json).files, filename, file_cache)])]

\* put_file storing the document it loaded, with no regard for what the
\* file holds by then
put_file_stored(d, files, filename, file_cache) ==
    [exists |-> TRUE,
     json |-> to_writer_pretty(
                 [files EXCEPT !.files = Insert(files.files, filename, file_cache)])]

\* no invocation is inside put_file
NoWriters == <<>>

----------------------------------------------------------------------------
(* State of the invocation *)

NoInv == [entry |-> "none", file |-> "", force_recompile |-> FALSE, tests |-> <<>>]

NoDecision ==
    [made |-> FALSE, had_entry |-> FALSE, stored_hash |-> "", old_tests |-> <<>>,
     target |-> "", built |-> FALSE, build_ok |-> FALSE]

NoStep ==
    [build |-> "none", exec |-> "none", child_success |-> FALSE, stdout |-> <<>>,
     expected |-> <<>>, passed |-> FALSE, reported |-> "none", main |-> 0]

\* history: the build a step made
BuildLabel(build, outcome) ==
    IF ~build.spawned THEN "none" ELSE IF outcome.success THEN "ok" ELSE "failed"

\* history: the registry entry a decision step starts from
Observe(d, filename, target, build, outcome) ==
    LET files == FromMembers(d.json.files)
        had == filename \in DOMAIN files
    IN  [made |-> TRUE, had_entry |-> had,
         stored_hash |-> IF had THEN files[filename].source_hash ELSE "",
         old_tests |-> IF had THEN files[filename].tests ELSE <<>>,
         target |-> target, built |-> build.spawned,
         build_ok |-> build.spawned /\ outcome.success]

\* initialize (execute/mod.rs): the document of a fresh project
InitialFiles(registry) ==
    [binary_dir_path |-> <<"binary">>,
     files |-> registry,
     languages_config |->
        ("cpp" :> "g++ $(FILE) -o $(BIN_DIR)/$(FILENAME).$(EXE_EXT) --std=c++20")
        @@ ("c" :> "gcc $(FILE) -o $(BIN_DIR)/$(FILENAME).$(EXE_EXT)"),
     no_readme |-> FALSE]

\* registries of the other file of the project when the run begins
InitialRegistries ==
    { <<>>,
      "b.c" :> FileCache(target_hashed("v1"), <<StringTest(<<"5">>, <<"2", "5">>)>>) }

\* no invocation has started
Quiet ==
    /\ source = [f \in FileNames |-> "v1"]
    /\ binaries = [f \in FileNames |-> NoBinary]
    /\ pc = "idle"
    /\ inv = NoInv
    /\ jobs = <<>>
    /\ ref = RefInit
    /\ score = 0
    /\ retry_builds = 0
    /\ result = ""
    /\ decision = NoDecision
    /\ last = NoStep

\* documents of an initialized project
InitialDisks ==
    {[exists |-> TRUE, json |-> to_writer_pretty(InitialFiles(registry))] :
        registry \in InitialRegistries}

\* an invocation that is not inside put_file
NoWriter ==
    [pc |-> "out", filename |-> "", file_cache |-> FileCache("", <<>>),
     files |-> InitialFiles(<<>>), stale |-> FALSE]

Init ==
    /\ disk \in InitialDisks
    /\ Quiet
    /\ writers = NoWriters
    /\ it = NoIterator
    /\ parsed = NoParsed
    /\ selection = NoSelection
    /\ template = NoTemplate
    /\ pipes = NoPipes

----------------------------------------------------------------------------
(* Operations outside an invocation *)

\* the user edits a source file
edit_source(f) ==
    /\ pc = "idle"
    /\ \E c \in Contents \ {source[f]} : source' = [source EXCEPT ![f] = c]
    /\ UNCHANGED <<disk, binaries, pc, inv, jobs, ref, score, retry_builds, result,
                   decision, last>>
    /\ UNCHANGED <<writers, it, parsed, selection, template, pipes>>

\* a binary is deleted from the binary directory
remove_binary(f) ==
    /\ pc = "idle"
    /\ binaries[f] # NoBinary
    /\ binaries' = [binaries EXCEPT ![f] = NoBinary]
    /\ UNCHANGED <<disk, source, pc, inv, jobs, ref, score, retry_builds, result,
                   decision, last>>
    /\ UNCHANGED <<writers, it, parsed, selection, template, pipes>>

\* add, add_file_link, add_standalone_file_link (execute/test.rs): push the
\* test on the entry's list, or start an entry with the file's digest
add(f, test) ==
    /\ pc = "idle"
    /\ LET found == get_file(disk, f)
           file_cache ==
               IF found.ok /\ found.value # None
               THEN FileCache(found.value[1].source_hash,
                              Append(found.value[1].tests, test))
               ELSE FileCache(target_hashed(source[f]), <<test>>)
           stored == put_file(disk, f, file_cache)
       IN  /\ Len(file_cache.tests) <= MaxTests
           /\ disk' = stored.disk
    /\ UNCHANGED <<source, binaries, pc, inv, jobs, ref, score, retry_builds, result,
                   decision, last>>
    /\ UNCHANGED <<writers, it, parsed, selection, template, pipes>>

\* the process ends
exit ==
    /\ pc = "done"
    /\ pc' = "idle"
    /\ inv' = NoInv
    /\ jobs' = <<>>
    /\ ref' = RefInit
    /\ score' = 0
    /\ retry_builds' = 0
    /\ result' = ""
    /\ decision' = NoDecision
    /\ last' = NoStep
    /\ UNCHANGED <<disk, source, binaries>>
    /\ UNCHANGED <<writers, it, parsed, selection, template, pipes>>

----------------------------------------------------------------------------
(* test run and test run-at: execute/test.rs *)

\* the test the head selector names
CurrentTest == inv.tests[jobs[1].main_test]

ValidMain(job) == ~(Len(inv.tests) < job.main_test \/ job.main_test = 0)

\* the caller is done with the current test: next test, or the summary
NextTest(counted) ==
    /\ score' = IF inv.entry = "test_run" /\ counted THEN score + 1 ELSE score
    /\ jobs' = Tail(jobs)
    /\ ref' = RefInit
    /\ retry_builds' = 0
    /\ pc' = IF Tail(jobs) = <<>> THEN "done" ELSE "exec"
    /\ result' = IF Tail(jobs) = <<>> THEN "ok" ELSE result

\* the invocation returns
Return(res) ==
    /\ pc' = "done"
    /\ result' = res
    /\ UNCHANGED <<jobs, ref, score, retry_builds>>

\* hash, get_config, the decision match, and the empty-list exit
TestRunBegin(entry, f, force_recompile, selectors) ==
    /\ \E outcome \in BuildOutcomes :
          LET target == target_hashed(source[f])
              config == get_config(disk)
              dec == test_run_decision(disk, f, target, force_recompile, outcome)
          IN  /\ config.ok
              /\ disk' = dec.disk
              /\ binaries' = after_build(binaries, source, f, dec.build, outcome)
              /\ decision' = Observe(disk, f, target, dec.build, outcome)
              /\ last' = [NoStep EXCEPT !.build = BuildLabel(dec.build, outcome)]
              /\ inv' = [entry |-> entry, file |-> f,
                         force_recompile |-> force_recompile, tests |-> dec.tests]
              /\ IF ~dec.ok
                 THEN pc' = "done" /\ result' = dec.error /\ jobs' = <<>>
                 ELSE IF dec.tests = <<>>
                 THEN pc' = "done" /\ result' = "ok" /\ jobs' = <<>>
                 ELSE /\ pc' = "exec"
                      /\ result' = ""
                      /\ jobs' = IF entry = "test_run" THEN AllTests(dec.tests)
                                 ELSE selectors
    /\ ref' = RefInit
    /\ score' = 0
    /\ retry_builds' = 0
    /\ UNCHANGED source
    /\ UNCHANGED <<writers, it, parsed, selection, template, pipes>>

\* run (execute/test.rs)
test_run(f, force_recompile) ==
    /\ pc = "idle"
    /\ TestRunBegin("test_run", f, force_recompile, <<>>)

\* run_at (execute/test.rs), the expression already evaluated
test_run_at(f, force_recompile, selectors) ==
    /\ pc = "idle"
    /\ TestRunBegin("test_run_at", f, force_recompile, selectors)

\* run_at: `file_cache.tests.len() < main_index || main_index == 0` returns Ok
run_at_invalid_index ==
    /\ pc = "exec"
    /\ inv.entry = "test_run_at"
    /\ jobs # <<>>
    /\ ~ValidMain(jobs[1])
    /\ Return("ok")
    /\ last' = NoStep
    /\ UNCHANGED <<disk, source, binaries, inv, decision>>
    /\ UNCHANGED <<writers, it, parsed, selection, template, pipes>>

\* run_core, StringTest arm: one turn of its loop, and what run / run_at do
\* with the RunResult::SingleTest or the error it returns
run_core ==
    /\ pc = "exec"
    /\ inv.entry \in {"test_run", "test_run_at"}
    /\ jobs # <<>>
    /\ ValidMain(jobs[1])
    /\ CurrentTest.kind = "StringTest"
    /\ \E child \in ChildOutputs, outcome \in BuildOutcomes :
          LET st == execute_binary(binaries, inv.file, child)
              build == recompile_binary(disk, inv.file, outcome)
              status == st.status = "Successful"
                        /\ string_test_status(CurrentTest.expected_output, st.stdout)
          IN  IF st.status = "NeedRecompilation"
              THEN /\ retry_builds < MaxRetryBuilds
                   /\ binaries' = after_build(binaries, source, inv.file, build, outcome)
                   /\ IF build.ok
                      THEN /\ retry_builds' = retry_builds + 1
                           /\ last' = [NoStep EXCEPT !.exec = st.status,
                                          !.build = BuildLabel(build, outcome),
                                          !.main = jobs[1].main_test]
                           /\ UNCHANGED <<pc, jobs, ref, score, result>>
                      ELSE \* Err(CompilationError): printed by run, dropped by run_at
                           /\ NextTest(FALSE)
                           /\ last' = [NoStep EXCEPT !.exec = st.status,
                                          !.build = BuildLabel(build, outcome),
                                          !.main = jobs[1].main_test,
                                          !.reported = "error"]
              ELSE /\ NextTest(status)
                   /\ last' = [NoStep EXCEPT !.exec = st.status,
                                  !.child_success = child.success,
                                  !.stdout = child.stdout,
                                  !.expected = CurrentTest.expected_output,
                                  !.passed = status,
                                  !.main = jobs[1].main_test,
                                  !.reported = IF status THEN "passed" ELSE "failed"]
                   /\ UNCHANGED binaries
    /\ UNCHANGED <<disk, source, inv, decision>>
    /\ UNCHANGED <<writers, it, parsed, selection, template, pipes>>

\* What run and run_at do with the RunResult::RefTest of the current test:
\* run_at with a sub-range stops on {status: false, total_test: 0, passed_test: 0};
\* the others print the average over detailed_status.len(), a division that
\* panics on an empty list, then go on with the next test.
RefTestReturned(r) ==
    LET res == ref_test_result(r, jobs[1].sub_tests)
        reported == IF res.status THEN "passed" ELSE "failed"
    IN  IF jobs[1].sub_tests # None /\ ~res.status
           /\ res.total_test = 0 /\ res.passed_test = 0
        THEN /\ Return("ok")
             /\ last' = [NoStep EXCEPT !.main = jobs[1].main_test, !.reported = "failed"]
        ELSE IF Len(res.detailed_status) = 0
        THEN /\ Return("panic")
             /\ last' = [NoStep EXCEPT !.main = jobs[1].main_test]
        ELSE /\ NextTest(res.status)
             /\ last' = [NoStep EXCEPT !.main = jobs[1].main_test, !.reported = reported]

\* What they do with Err(CompilationError) from _ref_test_run_core: run prints
\* it and scores 0, run_at with a sub-range stops, run_at without drops it.
RefTestFailed ==
    IF inv.entry = "test_run_at" /\ jobs[1].sub_tests # None
    THEN Return("ok")
    ELSE NextTest(FALSE)

\* _ref_test_run_core: one turn of its for loop (one turn of the inner retry
\* loop when the binary is absent), and the return when the iterator ends
\* or yields an error
_ref_test_run_core ==
    /\ pc = "exec"
    /\ inv.entry \in {"test_run", "test_run_at"}
    /\ jobs # <<>>
    /\ ValidMain(jobs[1])
    /\ CurrentTest.kind = "RefTest"
    /\ LET run_range == jobs[1].sub_tests
           stream == _test_iterator(CurrentTest.input, CurrentTest.expected_output)
           i == ref.inner_index
           seen == IF run_range # None THEN [ref EXCEPT !.only_run_at_ran = TRUE] ELSE ref
           counted == IF retry_builds = 0
                      THEN [seen EXCEPT !.total_inner_tests = @ + 1]
                      ELSE seen
       IN  IF i >= Len(stream)
           THEN RefTestReturned(ref) /\ UNCHANGED binaries
           ELSE IF run_range # None /\ ~contains(run_range[1], i + 1)
           THEN /\ ref' = [ref EXCEPT !.inner_index = i + 1]
                /\ last' = NoStep
                /\ UNCHANGED <<binaries, pc, jobs, score, retry_builds, result>>
           ELSE IF ~stream[i + 1].ok
           THEN RefTestReturned(seen) /\ UNCHANGED binaries
           ELSE \E child \in ChildOutputs, outcome \in BuildOutcomes :
                  LET st == execute_binary(binaries, inv.file, child)
                      build == recompile_binary(disk, inv.file, outcome)
                      status == st.status = "Successful"
                                /\ ref_test_status(stream[i + 1].expected_output, st.stdout)
                  IN  IF st.status = "NeedRecompilation"
                      THEN /\ retry_builds < MaxRetryBuilds
                           /\ binaries' = after_build(binaries, source, inv.file, build, outcome)
                           /\ IF build.ok
                              THEN /\ retry_builds' = retry_builds + 1
                                   /\ ref' = counted
                                   /\ last' = [NoStep EXCEPT !.exec = st.status,
                                                  !.build = BuildLabel(build, outcome),
                                                  !.main = jobs[1].main_test]
                                   /\ UNCHANGED <<pc, jobs, score, result>>
                              ELSE /\ RefTestFailed
                                   /\ last' = [NoStep EXCEPT !.exec = st.status,
                                                  !.build = BuildLabel(build, outcome),
                                                  !.main = jobs[1].main_test,
                                                  !.reported = "error"]
                      ELSE /\ ref' = [counted EXCEPT
                                        !.inner_index = i + 1,
                                        !.tests_pass = @ /\ status,
                                        !.inner_score = IF status THEN @ + 1 ELSE @,
                                        !.detailed_status =
                                            Append(@, [ref_test_index |-> i, status |-> status])]
                           /\ retry_builds' = 0
                           /\ last' = [NoStep EXCEPT !.exec = st.status,
                                          !.child_success = child.success,
                                          !.stdout = child.stdout,
                                          !.expected = stream[i + 1].expected_output,
                                          !.passed = status,
                                          !.main = jobs[1].main_test]
                           /\ UNCHANGED <<binaries, pc, jobs, score, result>>
    /\ UNCHANGED <<disk, source, inv, decision>>
    /\ UNCHANGED <<writers, it, parsed, selection, template, pipes>>

----------------------------------------------------------------------------
(* run: execute/mod.rs *)

\* run: hash, get_config, the decision match
run(f) ==
    /\ pc = "idle"
    /\ \E outcome \in BuildOutcomes :
          LET target == target_hashed(source[f])
              config == get_config(disk)
              dec == run_decision(disk, f, target, outcome)
          IN  /\ config.ok
              /\ disk' = dec.disk
              /\ binaries' = after_build(binaries, source, f, dec.build, outcome)
              /\ decision' = Observe(disk, f, target, dec.build, outcome)
              /\ last' = [NoStep EXCEPT !.build = BuildLabel(dec.build, outcome)]
              /\ inv' = [entry |-> "run", file |-> f,
                         force_recompile |-> FALSE, tests |-> dec.tests]
              /\ IF ~dec.ok
                 THEN pc' = "done" /\ result' = dec.error
                 ELSE pc' = "exec" /\ result' = ""
    /\ jobs' = <<>>
    /\ ref' = RefInit
    /\ score' = 0
    /\ retry_builds' = 0
    /\ UNCHANGED source
    /\ UNCHANGED <<writers, it, parsed, selection, template, pipes>>

\* run: one turn of its execute loop, stdin and stdout inherited
run_execute ==
    /\ pc = "exec"
    /\ inv.entry = "run"
    /\ \E child \in ChildOutputs, outcome \in BuildOutcomes :
          LET st == execute_binary(binaries, inv.file, child)
              build == recompile_binary(disk, inv.file, outcome)
          IN  IF st.status = "NeedRecompilation"
              THEN /\ retry_builds < MaxRetryBuilds
                   /\ binaries' = after_build(binaries, source, inv.file, build, outcome)
                   /\ last' = [NoStep EXCEPT !.exec = st.status,
                                  !.build = BuildLabel(build, outcome)]
                   /\ IF build.ok
                      THEN /\ retry_builds' = retry_builds + 1
                           /\ UNCHANGED <<pc, result>>
                      ELSE /\ pc' = "done"
                           /\ result' = "CompilationError"
                           /\ UNCHANGED retry_builds
              ELSE /\ pc' = "done"
                   /\ result' = "ok"
                   /\ last' = [NoStep EXCEPT !.exec = st.status]
                   /\ UNCHANGED <<binaries, retry_builds>>
    /\ UNCHANGED <<disk, source, inv, jobs, ref, score, decision>>
    /\ UNCHANGED <<writers, it, parsed, selection, template, pipes>>

----------------------------------------------------------------------------
(* The earlier snapshot: execute.rs *)

\* run (execute.rs): on a hit the binary is executed; when there is no hit,
\* or the binary was absent, the file is rebuilt, its entry is stored with
\* the new hash and an empty tests list, and the binary is executed once more
execute_rs_run(f) ==
    /\ pc = "idle"
    /\ \E first_child \in ChildOutputs, second_child \in ChildOutputs,
          outcome \in BuildOutcomes :
          LET target == target_hashed(source[f])
              config == get_config(disk)
              found == get_file(disk, f)
              hit == found.ok /\ found.value # None
                     /\ target = found.value[1].source_hash
              first == excute_binary(disk, binaries, f, first_child)
              d1 == IF hit THEN first.disk ELSE disk
              build == execute_rs_recompile_binary(d1, f, outcome)
              bins1 == after_build(binaries, source, f, build, outcome)
              stored == put_file(d1, f, FileCache(target, <<>>))
              second == excute_binary(stored.disk, bins1, f, second_child)
          IN  /\ config.ok
              /\ inv' = [entry |-> "execute_rs_run", file |-> f,
                         force_recompile |-> FALSE, tests |-> <<>>]
              /\ IF hit /\ first.ok /\ first.output # None
                 THEN /\ result' = "ok"
                      /\ decision' = Observe(disk, f, target,
                                        [ok |-> TRUE, spawned |-> FALSE], outcome)
                      /\ last' = [NoStep EXCEPT
                                    !.exec = IF first_child.success
                                             THEN "Successful" ELSE "Failed"]
                      /\ UNCHANGED <<disk, binaries>>
                 ELSE /\ decision' = Observe(disk, f, target, build, outcome)
                      /\ last' = [NoStep EXCEPT
                                    !.build = BuildLabel(build, outcome),
                                    !.exec = IF second.output = None
                                             THEN "NeedRecompilation"
                                             ELSE IF second_child.success
                                             THEN "Successful" ELSE "Failed"]
                      /\ IF (hit /\ ~first.ok) \/ ~build.ok
                         THEN /\ result' = "Io"
                              /\ disk' = d1
                              /\ UNCHANGED binaries
                         ELSE /\ result' = IF stored.ok /\ second.ok THEN "ok" ELSE "Io"
                              /\ disk' = second.disk
                              /\ binaries' = bins1
    /\ pc' = "done"
    /\ UNCHANGED <<source, jobs, ref, score, retry_builds>>
    /\ UNCHANGED <<writers, it, parsed, selection, template, pipes>>

\* run_core (execute.rs), StringTest arm: exit status zero and
\* `expected_output != String::from_utf8_lossy(&output.stdout)`
execute_rs_string_test_status(expected_output, child) ==
    child.success /\ expected_output = child.stdout

\* _ref_test_run_core (execute.rs) called with only_run_at = None: every
\* item is skipped by `!(only_run_at.is_some() && ...)`, so nothing runs
execute_rs_ref_test_result(stream) ==
    [status |-> TRUE, not_success |-> 0, total |-> 0]

\* test::run (execute.rs): the decision step, then run_core on every test;
\* run_core asserts that the binary is in the binary directory
execute_rs_test_run(f) ==
    /\ pc = "idle"
    /\ \E outcome \in BuildOutcomes :
          LET target == target_hashed(source[f])
              config == get_config(disk)
              dec == execute_rs_test_run_decision(disk, f, target, outcome)
              bins1 == after_build(binaries, source, f, dec.build, outcome)
          IN  /\ config.ok
              /\ disk' = dec.disk
              /\ binaries' = bins1
              /\ decision' = Observe(disk, f, target, dec.build, outcome)
              /\ last' = [NoStep EXCEPT !.build = BuildLabel(dec.build, outcome)]
              /\ inv' = [entry |-> "execute_rs_test_run", file |-> f,
                         force_recompile |-> FALSE, tests |-> dec.tests]
              /\ IF ~dec.ok
                 THEN result' = dec.error /\ score' = 0
                 ELSE IF dec.tests = <<>>
                 THEN result' = "ok" /\ score' = 0
                 ELSE IF bins1[f] = NoBinary
                 THEN result' = "panic" /\ score' = 0
                 ELSE \E children \in [1..Len(dec.tests) -> ChildOutputs] :
                        /\ result' = "ok"
                        /\ score' = Cardinality(
                              {i \in 1..Len(dec.tests) :
                                  IF dec.tests[i].kind = "StringTest"
                                  THEN execute_rs_string_test_status(
                                          dec.tests[i].expected_output, children[i])
                                  ELSE execute_rs_ref_test_result(
                                          _test_iterator(dec.tests[i].input,
                                              dec.tests[i].expected_output)).status})
    /\ pc' = "done"
    /\ UNCHANGED <<source, jobs, ref, retry_builds>>
    /\ UNCHANGED <<writers, it, parsed, selection, template, pipes>>

----------------------------------------------------------------------------
(* The cache store on its own: cache_file.rs *)

\* the entries callers hand to put_file
CacheHashes == {target_hashed(content) : content \in Contents} \cup {PENDING_RECOMPILATION}
CacheTestLists ==
    LET string_test == StringTest(<<"5">>, <<"2", "5">>)
        ref_test == RefTest(<<"pairs.txt">>, None)
    IN  {<<>>, <<string_test>>, <<string_test, ref_test>>, <<ref_test, string_test>>}
FileCaches == {FileCache(hash, tests) : hash \in CacheHashes, tests \in CacheTestLists}

\* a caller stores an entry
put_file_call(f, file_cache) ==
    /\ pc = "idle"
    /\ LET stored == put_file(disk, f, file_cache)
       IN  /\ disk' = stored.disk
           /\ result' = IF stored.ok THEN "ok" ELSE stored.error
    /\ inv' = [entry |-> "put_file", file |-> f,
               force_recompile |-> FALSE, tests |-> file_cache.tests]
    /\ UNCHANGED <<source, binaries, pc, jobs, ref, score, retry_builds, decision, last>>
    /\ UNCHANGED <<writers, it, parsed, selection, template, pipes>>

\* a caller looks an entry up
get_file_call(f) ==
    /\ pc = "idle"
    /\ LET found == get_file(disk, f)
       IN  /\ result' = IF ~found.ok THEN found.error
                        ELSE IF found.value = None THEN "None"
                        ELSE found.value[1].source_hash
           /\ inv' = [entry |-> "get_file", file |-> f, force_recompile |-> FALSE,
                      tests |-> IF found.value = None THEN <<>>
                                ELSE found.value[1].tests]
    /\ UNCHANGED <<disk, source, binaries, pc, jobs, ref, score, retry_builds,
                   decision, last>>
    /\ UNCHANGED <<writers, it, parsed, selection, template, pipes>>

\* a caller reads the whole document
get_config_call ==
    /\ pc = "idle"
    /\ LET config == get_config(disk)
       IN  result' = IF config.ok THEN "ok" ELSE config.error
    /\ inv' = [entry |-> "get_config", file |-> "", force_recompile |-> FALSE,
               tests |-> <<>>]
    /\ UNCHANGED <<disk, source, binaries, pc, jobs, ref, score, retry_builds,
                   decision, last>>
    /\ UNCHANGED <<writers, it, parsed, selection, template, pipes>>

\* initialize writing the document of a fresh project whether or not one
\* exists
initialize_recreating ==
    /\ pc = "idle"
    /\ disk' = [exists |-> TRUE, json |-> to_writer_pretty(InitialFiles(<<>>))]
    /\ result' = "ok"
    /\ inv' = [entry |-> "initialize", file |-> "", force_recompile |-> FALSE,
               tests |-> <<>>]
    /\ UNCHANGED <<source, binaries, pc, jobs, ref, score, retry_builds,
                   decision, last>>
    /\ UNCHANGED <<writers, it, parsed, selection, template, pipes>>

\* initialize (execute/mod.rs): creates the document of a project that has
\* none, with no entries; leaves an existing one alone
initialize ==
    /\ pc = "idle"
    /\ disk' = IF ~disk.exists
               THEN [exists |-> TRUE, json |-> to_writer_pretty(InitialFiles(<<>>))]
               ELSE disk
    /\ result' = "ok"
    /\ inv' = [entry |-> "initialize", file |-> "", force_recompile |-> FALSE,
               tests |-> <<>>]
    /\ UNCHANGED <<source, binaries, pc, jobs, ref, score, retry_builds,
                   decision, last>>
    /\ UNCHANGED <<writers, it, parsed, selection, template, pipes>>

\* a directory in which initialize has not run: no erunner_cache.json
NoDocument ==
    [exists |-> FALSE,
     json |-> [binary_dir_path |-> <<>>, files |-> {}, languages_config |-> {},
               no_readme |-> FALSE]]

InitCache ==
    /\ disk \in InitialDisks \cup {NoDocument}
    /\ Quiet
    /\ writers = NoWriters
    /\ it = NoIterator
    /\ parsed = NoParsed
    /\ selection = NoSelection
    /\ template = NoTemplate
    /\ pipes = NoPipes

NextCache ==
    \/ \E f \in FileNames, file_cache \in FileCaches : put_file_call(f, file_cache)
    \/ \E f \in FileNames : get_file_call(f)
    \/ get_config_call
    \/ initialize

SpecCache == InitCache /\ [][NextCache]_vars

----------------------------------------------------------------------------
(* Two invocations inside put_file at once: cache_file.rs *)

\* put_file, first half: the is_file check, File::open and from_reader
put_file_load(w, f, file_cache) ==
    /\ writers[w].pc = "out"
    /\ \A v \in Writers \ {w} : writers[v].filename # f
    /\ disk.exists
    /\ writers' = [writers EXCEPT ![w] =
                      [pc |-> "loaded", filename |-> f, file_cache |-> file_cache,
                       files |-> put_file_loaded(disk), stale |-> FALSE]]
    /\ UNCHANGED <<disk, source, binaries, pc, inv, jobs, ref, score, retry_builds,
                   result, decision, last, it, parsed, selection, template, pipes>>

\* put_file, second half: insert, File::create and to_writer_pretty; the
\* invocations that loaded before this store now hold a stale document
put_file_store(w) ==
    /\ writers[w].pc = "loaded"
    /\ disk' = put_file_stored(disk, writers[w].files, writers[w].filename,
                               writers[w].file_cache)
    /\ writers' = [v \in Writers |->
                      IF v = w THEN [writers[v] EXCEPT !.pc = "stored"]
                      ELSE IF writers[v].pc = "loaded"
                      THEN [writers[v] EXCEPT !.stale = TRUE]
                      ELSE writers[v]]
    /\ UNCHANGED <<source, binaries, pc, inv, jobs, ref, score, retry_builds,
                   result, decision, last, it, parsed, selection, template, pipes>>

InitWriters ==
    /\ disk \in InitialDisks
    /\ Quiet
    /\ writers = [w \in Writers |-> NoWriter]
    /\ it = NoIterator
    /\ parsed = NoParsed
    /\ selection = NoSelection
    /\ template = NoTemplate
    /\ pipes = NoPipes

NextWriters ==
    \/ \E w \in Writers, f \in FileNames, file_cache \in FileCaches :
          put_file_load(w, f, file_cache)
    \/ \E w \in Writers : put_file_store(w)

SpecWriters == InitWriters /\ [][NextWriters]_vars

----------------------------------------------------------------------------
(* The parser on its own: test_file.rs *)

\* directive lines
StandaloneLine == <<"#">> \o STANDALONE
DisableTrimLine == <<"#", "d", "i", "s", "a", "b", "l", "e", ":">> \o TRIM
ExplicitNewlineLine == <<"#">> \o EXPLICIT_NEWLINE

\* the directive lines a definition file starts with
Preambles ==
    {<<>>, <<StandaloneLine>>, <<DisableTrimLine>>, <<ExplicitNewlineLine>>}

\* one line of any characters that matter to the scanner
ParserChars == {"{", "}", "-", ">", "\\", "n", " "}
FreeLines == UNION {[1..k -> ParserChars] : k \in 0..MaxLineLen}
FreeTexts == {preamble \o <<line>> : preamble \in Preambles, line \in FreeLines}

\* `{in}->{out}` lines
FormBodies == {<<>>, <<"1">>, <<"2", "-">>}
FormLine(input, expected_output) ==
    <<"{">> \o input \o <<"}", "-", ">", "{">> \o expected_output \o <<"}">>
FormLines == {FormLine(input, expected_output) :
                 input \in FormBodies, expected_output \in FormBodies}
FormTexts == UNION {[1..k -> FormLines] : k \in 1..MaxLines}

\* standalone files: one or two blocks on each line
BlockBodies == {<<>>, <<"1">>}
Block(body) == <<"{">> \o body \o <<"}">>
BlockLines ==
    {Block(body) : body \in BlockBodies}
    \cup {Block(body) \o Block(other) : body \in BlockBodies, other \in BlockBodies}
BlockTexts ==
    {<<StandaloneLine>> \o lines : lines \in UNION {[1..k -> BlockLines] : k \in 1..MaxLines}}

\* standalone files: one block over several lines
Pieces == {<<>>, <<"n">>, <<" ", "n", " ">>, <<"\\", "n">>, <<"-">>}
Spread(pieces) ==
    [i \in 1..Len(pieces) |->
        (IF i = 1 THEN <<"{">> ELSE <<>>) \o pieces[i]
        \o (IF i = Len(pieces) THEN <<"}">> ELSE <<>>)]
SpreadPreambles ==
    {<<StandaloneLine>> \o preamble :
        preamble \in {<<>>, <<DisableTrimLine>>, <<ExplicitNewlineLine>>,
                      <<DisableTrimLine, ExplicitNewlineLine>>}}
SpreadTexts ==
    {preamble \o Spread(pieces) :
        preamble \in SpreadPreambles,
        pieces \in UNION {[1..k -> Pieces] : k \in 1..(MaxLines + 1)}}

\* `{in}{out}` and `{in}->->{out}` lines: two blocks and not one arrow between them
NoArrow == <<>>
TwoArrows == <<"-", ">", "-", ">">>
MispipedLines ==
    {Block(input) \o arrows \o Block(expected_output) :
        input \in FormBodies, expected_output \in FormBodies,
        arrows \in {NoArrow, TwoArrows}}
MispipedTexts == UNION {[1..k -> MispipedLines] : k \in 1..MaxLines}

\* a block with directive lines between its first line and its closing line
ENABLE == <<"e", "n", "a", "b", "l", "e">>
DISABLE == <<"d", "i", "s", "a", "b", "l", "e">>
FlagNames == {STANDALONE, TRIM, EXPLICIT_NEWLINE}
UnrecognizedLine == <<"#", "-", ">", "{">>
DirectiveLines ==
    {<<"#">> \o ENABLE \o <<":">> \o name : name \in FlagNames}
    \cup {<<"#">> \o DISABLE \o <<":">> \o name : name \in FlagNames}
    \cup {<<"#">> \o name : name \in FlagNames}
    \cup {UnrecognizedLine}
DirectiveTexts ==
    {<<(<<"{", "1">>)>> \o directives \o <<(<<"}">>)>> :
        directives \in UNION {[1..k -> DirectiveLines] : k \in 1..MaxLines}}

Texts ==
    FreeTexts \cup FormTexts \cup BlockTexts \cup SpreadTexts \cup MispipedTexts
    \cup DirectiveTexts

\* a caller takes the next item of the iterator
next ==
    /\ ~parsed.ended
    /\ \E did \in {TestFileIterator_next(it)} :
           /\ it' = did.it
           /\ parsed' = [parsed EXCEPT
                            !.items = IF did.item = None THEN @ ELSE Append(@, did.item[1]),
                            !.scanned = did.scanned,
                            !.ended = did.item = None]
    /\ UNCHANGED <<disk, source, binaries, pc, inv, jobs, ref, score, retry_builds,
                   result, decision, last, writers, selection, template, pipes>>

\* read_test_file on a definition file
InitParser ==
    /\ disk = NoDocument
    /\ Quiet
    /\ writers = NoWriters
    /\ \E text \in Texts :
          /\ it = TestFileIterator_new(text)
          /\ parsed = [NoParsed EXCEPT !.text = text]
    /\ selection = NoSelection
    /\ template = NoTemplate
    /\ pipes = NoPipes

NextParser == next

SpecParser == InitParser /\ [][NextParser]_vars

-----------------------------------------------------------------------------
(* The merged iterator on its own: an input file and an expected output file *)

\* definition files of standalone blocks, one on each line, `}` for a bad line
StreamLines == {Block(<<"1">>), Block(<<"2">>), <<"}">>}
StreamTexts ==
    {<<StandaloneLine>> \o lines :
        lines \in UNION {[1..k -> StreamLines] : k \in 0..MaxRecords}}

\* a caller takes the next item of the merged iterator
merged_next ==
    /\ ~parsed.ended
    /\ \E did \in {MergedTestFileTterator_next(it)} :
           /\ it' = did.it
           /\ parsed' = [parsed EXCEPT
                            !.items = IF did.item = None THEN @ ELSE Append(@, did.item[1]),
                            !.ended = did.item = None]
    /\ UNCHANGED <<disk, source, binaries, pc, inv, jobs, ref, score, retry_builds,
                   result, decision, last, writers, selection, template, pipes>>

\* _test_iterator with an expected output file: merge_test_file
InitMerge ==
    /\ disk = NoDocument
    /\ Quiet
    /\ writers = NoWriters
    /\ \E input \in StreamTexts, output \in StreamTexts :
          /\ it = MergedTestFileTterator_new(TestFileIterator_new(input),
                                             TestFileIterator_new(output))
          /\ parsed = [NoParsed EXCEPT !.text = <<input, output>>]
    /\ selection = NoSelection
    /\ template = NoTemplate
    /\ pipes = NoPipes

NextMerge == merged_next

SpecMerge == InitMerge /\ [][NextMerge]_vars

-----------------------------------------------------------------------------
(* The selector evaluator on its own: run_at's expression *)

\* usize::to_string
RECURSIVE to_string(_)
to_string(n) ==
    IF n < 10 THEN <<Digits[n + 1]>>
    ELSE to_string(n \div 10) \o <<Digits[(n % 10) + 1]>>

\* numbers a selector names
MainNumbers == {0, 1, 2, 4, 10}
SubNumbers == {1, 3}

\* a sub index written or left out
SubIndexes == {None} \cup {Some(sub) : sub \in SubNumbers}

\* `A[.a]`: a main index and, unless left out, a sub index
Endpoint(main, sub) ==
    IF sub = None THEN to_string(main) ELSE to_string(main) \o <<".">> \o to_string(sub[1])

\* `A[.a]-B[.b]`
RangeText(main_start, sub_start, main_end, sub_end) ==
    Endpoint(main_start, sub_start) \o <<"-">> \o Endpoint(main_end, sub_end)

\* one piece of any characters that matter to the evaluator
SelectorChars == {"0", "1", "2", ".", "-", ",", " ", "x"}
FreeExpressions == UNION {[1..k -> SelectorChars] : k \in 0..MaxExprLen}

\* single pieces: N, N.M, A[.a]-B[.b]
PieceExpressions ==
    {Endpoint(main, sub) : main \in MainNumbers, sub \in SubIndexes}
    \cup {RangeText(main_start, sub_start, main_end, sub_end) :
             main_start \in MainNumbers, main_end \in MainNumbers,
             sub_start \in SubIndexes, sub_end \in SubIndexes}
    \cup {RangeText(usize_MAX, sub_start, main_end, sub_end) :
             main_end \in MainNumbers, sub_start \in SubIndexes, sub_end \in SubIndexes}

\* comma-separated lists of good and bad pieces
ListPieces ==
    {<<"1">>, <<"2", ".", "2">>, <<"3", "-", "4">>, <<" ", "2", " ">>,
     <<"a", "b", "c">>, <<"1", "-", "2", "-", "3">>}
RECURSIVE join(_, _)
join(parts, chr) ==
    IF Len(parts) = 1 THEN parts[1]
    ELSE parts[1] \o <<chr>> \o join(Tail(parts), chr)
ListExpressions ==
    {join(pieces, ",") : pieces \in UNION {[1..k -> ListPieces] : k \in 1..3}}

Expressions == FreeExpressions \cup PieceExpressions \cup ListExpressions

\* run_at: `evaluate(expression)`
evaluate_call ==
    /\ selection.evaluated = None
    /\ selection' = [selection EXCEPT !.evaluated = Some(evaluate(selection.expressions))]
    /\ UNCHANGED <<disk, source, binaries, pc, inv, jobs, ref, score, retry_builds,
                   result, decision, last, writers, it, parsed, template, pipes>>

InitSelector ==
    /\ disk = NoDocument
    /\ Quiet
    /\ writers = NoWriters
    /\ it = NoIterator
    /\ parsed = NoParsed
    /\ \E expressions \in Expressions, overflow_checks \in BOOLEAN :
          selection = [NoSelection EXCEPT !.expressions = expressions,
                                          !.overflow_checks = overflow_checks]
    /\ template = NoTemplate
    /\ pipes = NoPipes

NextSelector == evaluate_call

SpecSelector == InitSelector /\ [][NextSelector]_vars

-----------------------------------------------------------------------------
(* The command templater on its own: a languages_config command, a source *)

\* what a command template is made of
Macros ==
    {TEMPLATE_CONFIG_BINARY_DIR, TEMPLATE_CONFIG_FILE, TEMPLATE_CONFIG_FILENAME,
     TEMPLATE_CONFIG_DIRNAME, TEMPLATE_CONFIG_DIR, TEMPLATE_CONFIG_EXE_EXTENSION}
TemplatePieces == Macros \cup {<<"c", "c", " ">>, <<".">>}

RECURSIVE Flattened(_)
Flattened(pieces) ==
    IF pieces = <<>> THEN <<>> ELSE Head(pieces) \o Flattened(Tail(pieces))

PieceLists == UNION {[1..k -> TemplatePieces] : k \in 1..MaxPieces}

SourcePaths == {<<"a", ".", "c">>, <<"e", "/", "a", ".", "c">>,
                <<"d", "/", "e", "/", "a", ".", "c">>}
BinaryDirPaths == {<<"b", "i", "n">>}

\* recompile_binary: the command of the language with its macros replaced
template_config_replacement_call ==
    /\ template.replaced = None
    /\ template' = [template EXCEPT !.replaced =
                       Some(template_config_replacement(template.config,
                               template.binary_dir_path, template.source_path,
                               template.windows))]
    /\ UNCHANGED <<disk, source, binaries, pc, inv, jobs, ref, score, retry_builds,
                   result, decision, last, writers, it, parsed, selection, pipes>>

InitTemplate ==
    /\ disk = NoDocument
    /\ Quiet
    /\ writers = NoWriters
    /\ it = NoIterator
    /\ parsed = NoParsed
    /\ selection = NoSelection
    /\ \E pieces \in PieceLists, source_path \in SourcePaths,
          binary_dir_path \in BinaryDirPaths, windows \in BOOLEAN :
          template = [config |-> Flattened(pieces), binary_dir_path |-> binary_dir_path,
                      source_path |-> source_path, windows |-> windows,
                      replaced |-> None]
    /\ pipes = NoPipes

NextTemplate == template_config_replacement_call

SpecTemplate == InitTemplate /\ [][NextTemplate]_vars

-----------------------------------------------------------------------------
(* The child and its pipes on their own *)

\* the child reads a unit of stdin, or end of file once the write end is closed
child_read ==
    /\ pipes.child = "reading"
    /\ \/ /\ pipes.stdin > 0
          /\ \E want \in Wants(pipes.output, pipes.eof) :
                pipes' = [pipes EXCEPT !.stdin = @ - 1, !.child = want]
       \/ /\ pipes.stdin = 0
          /\ ~pipes.stdin_open
          /\ \E want \in Wants(pipes.output, TRUE) :
                pipes' = [pipes EXCEPT !.eof = TRUE, !.child = want]
    /\ UNCHANGED <<disk, source, binaries, pc, inv, jobs, ref, score, retry_builds,
                   result, decision, last, writers, it, parsed, selection, template>>

\* the child writes a unit to stdout
child_write ==
    /\ pipes.child = "writing"
    /\ pipes.stdout < PipeCapacity
    /\ \E want \in Wants(pipes.output - 1, pipes.eof) :
          pipes' = [pipes EXCEPT !.stdout = @ + 1, !.output = @ - 1, !.child = want]
    /\ UNCHANGED <<disk, source, binaries, pc, inv, jobs, ref, score, retry_builds,
                   result, decision, last, writers, it, parsed, selection, template>>

\* execute_binary, the spawned thread: `writer.write_all(chunk)` through the
\* BufWriter; an error breaks the loop and the thread ends, dropping child_stdin
execute_binary_write_all ==
    /\ pipes.variant = "execute_binary"
    /\ pipes.writer = "writing"
    /\ pipes.input > 0
    /\ IF pipes.child = "exited"
       THEN pipes' = [pipes EXCEPT !.writer = "done", !.stdin_open = FALSE]
       ELSE /\ pipes.stdin < PipeCapacity
            /\ pipes' = [pipes EXCEPT !.input = @ - 1, !.stdin = @ + 1]
    /\ UNCHANGED <<disk, source, binaries, pc, inv, jobs, ref, score, retry_builds,
                   result, decision, last, writers, it, parsed, selection, template>>

\* execute_binary, the spawned thread: `writer.flush()` after the last chunk
\* and the end of the thread, dropping child_stdin
execute_binary_flush ==
    /\ pipes.variant = "execute_binary"
    /\ pipes.writer = "writing"
    /\ pipes.input = 0
    /\ pipes' = [pipes EXCEPT !.writer = "done", !.stdin_open = FALSE]
    /\ UNCHANGED <<disk, source, binaries, pc, inv, jobs, ref, score, retry_builds,
                   result, decision, last, writers, it, parsed, selection, template>>

\* excute_binary: `child_stdin.write_all(input.as_bytes())?` in the parent,
\* then `drop(child_stdin)` of the borrow; wait_with_output closes stdin
excute_binary_write_all ==
    /\ pipes.variant = "excute_binary"
    /\ pipes.parent = "write_all"
    /\ IF pipes.input = 0
       THEN pipes' = [pipes EXCEPT !.parent = "wait_with_output", !.stdin_open = FALSE]
       ELSE IF pipes.child = "exited"
       THEN pipes' = [pipes EXCEPT !.parent = "returned", !.stdin_open = FALSE]
       ELSE /\ pipes.stdin < PipeCapacity
            /\ pipes' = [pipes EXCEPT !.input = @ - 1, !.stdin = @ + 1]
    /\ UNCHANGED <<disk, source, binaries, pc, inv, jobs, ref, score, retry_builds,
                   result, decision, last, writers, it, parsed, selection, template>>

\* `child.wait_with_output()`: stdout is read to its end, then the child is
\* waited for
wait_with_output ==
    /\ pipes.parent = "wait_with_output"
    /\ IF pipes.stdout > 0
       THEN pipes' = [pipes EXCEPT !.stdout = @ - 1]
       ELSE /\ pipes.child = "exited"
            /\ pipes' = [pipes EXCEPT !.parent = "returned"]
    /\ UNCHANGED <<disk, source, binaries, pc, inv, jobs, ref, score, retry_builds,
                   result, decision, last, writers, it, parsed, selection, template>>

\* the child spawned with `Stdio::piped()` for stdin and stdout
InitPipes ==
    /\ disk = NoDocument
    /\ Quiet
    /\ writers = NoWriters
    /\ it = NoIterator
    /\ parsed = NoParsed
    /\ selection = NoSelection
    /\ template = NoTemplate
    /\ \E variant \in {"execute_binary", "excute_binary"},
          input \in 0..MaxInput, output \in 0..MaxOutput :
          \E want \in Wants(output, FALSE) :
             pipes = [variant |-> variant, input |-> input, stdin |-> 0,
                      stdin_open |-> TRUE, stdout |-> 0, child |-> want,
                      output |-> output, eof |-> FALSE,
                      parent |-> IF variant = "execute_binary"
                                 THEN "wait_with_output" ELSE "write_all",
                      writer |-> IF variant = "execute_binary" THEN "writing" ELSE "none"]

NextPipes ==
    \/ child_read
    \/ child_write
    \/ execute_binary_write_all
    \/ execute_binary_flush
    \/ excute_binary_write_all
    \/ wait_with_output

SpecPipes == InitPipes /\ [][NextPipes]_vars

-----------------------------------------------------------------------------
(* The project under its commands: execute/mod.rs, execute/test.rs, execute/cache.rs *)

\* the line read_line reads as the answer to purge's question
Answers == {<<"Y", "\n">>, <<"n", "\n">>, <<"\n">>}

\* erunner purge
purge_call(answer) ==
    /\ pc = "idle"
    /\ disk' = purge(disk, answer).disk
    /\ UNCHANGED <<source, binaries, pc, inv, jobs, ref, score, retry_builds, result,
                   decision, last>>
    /\ UNCHANGED <<writers, it, parsed, selection, template, pipes>>

\* erunner clean, in a project whose source files are all in the current
\* directory
clean_call ==
    /\ pc = "idle"
    /\ disk' = clean(disk, DOMAIN source).disk
    /\ UNCHANGED <<source, binaries, pc, inv, jobs, ref, score, retry_builds, result,
                   decision, last>>
    /\ UNCHANGED <<writers, it, parsed, selection, template, pipes>>

NextProject ==
    \/ \E f \in RunFiles : edit_source(f)
    \/ \E f \in RunFiles, test \in TestPool : add(f, test)
    \/ \E f \in RunFiles, force_recompile \in BOOLEAN : test_run(f, force_recompile)
    \/ run_core
    \/ _ref_test_run_core
    \/ \E f \in RunFiles : run(f)
    \/ run_execute
    \/ \E answer \in Answers : purge_call(answer)
    \/ clean_call
    \/ exit

SpecProject == Init /\ [][NextProject]_vars

-----------------------------------------------------------------------------
(* The runner of file-linked tests on its own: execute/test.rs *)

\* the definition files a file-linked test names
LinkedFiles ==
    {<<"pairs.txt">>, <<"broken.txt">>, <<"unmatched.txt">>, <<"mixed.txt">>, <<"empty.txt">>}

\* run_at's selectors of the one registered test: all of it, or a sub-range
LinkedSelections ==
    {<<TestsRange(1, None)>>} \cup
    {<<TestsRange(1, Some(<<from, to>>))>> : from \in 1..3, to \in {3, usize_MAX}}
    \cup {<<TestsRange(1, Some(<<1, 1>>))>>, <<TestsRange(1, Some(<<4, 4>>))>>}

\* a.c is registered with its digest and one file-linked test, and is built
\* or its binary is gone
InitLinked ==
    /\ \E path \in LinkedFiles :
          disk = [exists |-> TRUE,
                  json |-> to_writer_pretty(InitialFiles(
                      "a.c" :> FileCache(target_hashed("v1"), <<RefTest(path, None)>>)))]
    /\ source = [f \in FileNames |-> "v1"]
    /\ \E built \in {"v1", NoBinary} :
          binaries = [f \in FileNames |-> IF f = "a.c" THEN built ELSE NoBinary]
    /\ pc = "idle"
    /\ inv = NoInv
    /\ jobs = <<>>
    /\ ref = RefInit
    /\ score = 0
    /\ retry_builds = 0
    /\ result = ""
    /\ decision = NoDecision
    /\ last = NoStep
    /\ writers = NoWriters
    /\ it = NoIterator
    /\ parsed = NoParsed
    /\ selection = NoSelection
    /\ template = NoTemplate
    /\ pipes = NoPipes

NextLinked ==
    \/ \E f \in RunFiles : test_run(f, FALSE)
    \/ \E f \in RunFiles, selectors \in LinkedSelections : test_run_at(f, FALSE, selectors)
    \/ _ref_test_run_core
    \/ exit

SpecLinked == InitLinked /\ [][NextLinked]_vars

----------------------------------------------------------------------------
(* Specification *)

Next ==
    \/ \E f \in RunFiles : edit_source(f)
    \/ \E f \in RunFiles : remove_binary(f)
    \/ \E f \in RunFiles, test \in TestPool : add(f, test)
    \/ \E f \in RunFiles, force_recompile \in BOOLEAN : test_run(f, force_recompile)
    \/ \E f \in RunFiles, force_recompile \in BOOLEAN, selectors \in Selections :
          test_run_at(f, force_recompile, selectors)
    \/ run_at_invalid_index
    \/ run_core
    \/ _ref_test_run_core
    \/ \E f \in RunFiles : run(f)
    \/ run_execute
    \/ \E f \in RunFiles : execute_rs_run(f)
    \/ \E f \in RunFiles : execute_rs_test_run(f)
    \/ exit

Spec == Init /\ [][Next]_vars

TypeOK ==
    /\ pc \in {"idle", "exec", "done"}
    /\ disk.exists \in BOOLEAN
    /\ source \in [FileNames -> Contents]
    /\ binaries \in [FileNames -> Contents \cup {NoBinary}]
    /\ score \in 0..MaxTests
    /\ retry_builds \in 0..MaxRetryBuilds

----------------------------------------------------------------------------
(* Properties *)

\* the registry as stored, and the entry points by snapshot
Registry(d) == FromMembers(d.json.files)
TestEntries == {"test_run", "test_run_at"}
MatchEntries == {"test_run", "test_run_at", "run", "execute_rs_test_run"}
RunEntries == MatchEntries \cup {"execute_rs_run"}

\* a step that starts an invocation of one of `entries`
Begins(entries) == pc = "idle" /\ inv'.entry \in entries

\* C1: a test run (run, run_at; also the single-file run, which has no
\* force_recompile) without force_recompile invokes the build command in its
\* decision step iff the registry has no entry for the file or the stored
\* source_hash differs from the digest of the file.
C1_BuildIffStale ==
    [][ (Begins({"test_run", "test_run_at", "run"}) /\ ~inv'.force_recompile)
        => LET f == inv'.file
           IN  (last'.build # "none")
               <=> (\/ f \notin DOMAIN Registry(disk)
                    \/ Registry(disk)[f].source_hash # target_hashed(source[f])) ]_vars

\* C1 witness: a test run without force_recompile found the stored hash
\* equal to the digest and invoked no build
C1_Witness ==
    /\ inv.entry = "test_run"
    /\ ~inv.force_recompile
    /\ pc = "exec"
    /\ decision.made /\ decision.had_entry
    /\ decision.stored_hash = decision.target
    /\ ~decision.built

\* C2: after a decision step that succeeds, in any run entry point, the
\* stored tests list is the previous one when an entry existed with another
\* hash, empty when no entry existed, and on a hit the document is not written.
C2_TestsKeptByDecision ==
    [][ (Begins(RunEntries) /\ ~inv'.force_recompile
         /\ result' \notin {"CompilationError", "Io"})
        => LET f == inv'.file
           IN  IF f \notin DOMAIN Registry(disk)
               THEN f \in DOMAIN Registry(disk') /\ Registry(disk')[f].tests = <<>>
               ELSE IF Registry(disk)[f].source_hash # target_hashed(source[f])
               THEN Registry(disk')[f].tests = Registry(disk)[f].tests
               ELSE disk' = disk ]_vars

\* C2 on the entry points that share the three-branch match: holds
C2_TestsKeptByMatch ==
    [][ (Begins(MatchEntries) /\ ~inv'.force_recompile
         /\ result' \notin {"CompilationError", "Io"})
        => LET f == inv'.file
           IN  IF f \notin DOMAIN Registry(disk)
               THEN f \in DOMAIN Registry(disk') /\ Registry(disk')[f].tests = <<>>
               ELSE IF Registry(disk)[f].source_hash # target_hashed(source[f])
               THEN Registry(disk')[f].tests = Registry(disk)[f].tests
               ELSE disk' = disk ]_vars

C4_AbsentBinaryStoresSentinel ==
    last.exec = "NeedRecompilation"
    => /\ inv.file \in DOMAIN Registry(disk)
       /\ Registry(disk)[inv.file].source_hash = PENDING_RECOMPILATION

\* C4 on the earlier snapshot alone, where excute_binary stores it: holds
C4_ExcuteBinaryStoresSentinel ==
    (inv.entry = "execute_rs_run" /\ result = "ok" /\ last.exec = "NeedRecompilation")
    => /\ inv.file \in DOMAIN Registry(disk)
       /\ Registry(disk)[inv.file].source_hash = PENDING_RECOMPILATION

\* C5: within one attempt to execute, the rebuild of an absent binary is
\* tried at most once.
C5_RetryAtMostOnce == retry_builds <= 1

\* C6: a build whose command exits non-zero ends the invocation with the
\* build error, without executing anything and without writing the registry.
C6_FailedBuildEndsInvocation ==
    [][ (last'.build = "failed")
        => /\ pc' = "done"
           /\ result' = "CompilationError"
           /\ disk' = disk
           /\ last'.exec \in {"none", "NeedRecompilation"} ]_vars

\* C6 on the decision step of run and run_at (execute/test.rs) and of run
\* (execute/mod.rs), where recompile_binary's error is propagated: holds
C6_FailedBuildEndsDecision ==
    [][ (Begins({"test_run", "test_run_at", "run"}) /\ last'.build = "failed")
        => /\ pc' = "done"
           /\ result' = "CompilationError"
           /\ disk' = disk
           /\ last'.exec = "none" ]_vars

\* C7: when the binary is present and the child exits non-zero under run or
\* run_at, that test (that record, for a file-linked test) is failed and
\* nothing else: the score is not raised, the runner goes on with the
\* remaining tests, and it returns normally after the last one.
C7_FailedChildFailsItsTestOnly ==
    [][ (/\ pc = "exec"
         /\ inv.entry \in TestEntries
         /\ last'.exec \in {"Successful", "Failed"}
         /\ ~last'.child_success)
        => IF CurrentTest.kind = "StringTest"
           THEN /\ ~last'.passed
                /\ last'.reported = "failed"
                /\ score' = score
                /\ jobs' = Tail(jobs)
                /\ pc' = (IF Tail(jobs) = <<>> THEN "done" ELSE "exec")
                /\ pc' = "done" => result' = "ok"
           ELSE /\ ~last'.passed
                /\ score' = score
                /\ jobs' = jobs
                /\ pc' = "exec"
                /\ ref'.inner_index = ref.inner_index + 1
                /\ ref'.inner_score = ref.inner_score
                /\ ~ref'.tests_pass
                /\ ref'.detailed_status =
                      Append(ref.detailed_status,
                             [ref_test_index |-> ref.inner_index, status |-> FALSE]) ]_vars

\* C7 witness: under run, the child of a StringTest exited non-zero, the
\* test was reported failed, and the runner is about to run the next test
C7_Witness ==
    /\ inv.entry = "test_run"
    /\ last.exec = "Failed"
    /\ ~last.child_success
    /\ last.reported = "failed"
    /\ pc = "exec"
    /\ jobs # <<>>

\* C8: a test executed under run or run_at passes iff the child exits zero
\* and its trimmed standard output equals the trimmed expected output.
C8_PassIffTrimmedEqual ==
    (inv.entry \in TestEntries /\ last.exec \in {"Successful", "Failed"})
    => (last.passed
        <=> (last.child_success /\ trim(last.stdout) = trim(last.expected)))

\* C8 on the records of file-linked tests, both sides trimmed: holds
C8_RecordPassIffTrimmedEqual ==
    (/\ inv.entry \in TestEntries
     /\ last.exec \in {"Successful", "Failed"}
     /\ inv.tests[last.main].kind = "RefTest")
    => (last.passed
        <=> (last.child_success /\ trim(last.stdout) = trim(last.expected)))

\* C9: a file-linked test whose definition file yields a parse error is
\* never reported as passed.
C9_ParseErrorNeverPassed ==
    (/\ inv.entry \in TestEntries
     /\ last.reported = "passed"
     /\ last.main \in 1..Len(inv.tests)
     /\ inv.tests[last.main].kind = "RefTest")
    => LET test == inv.tests[last.main]
           stream == _test_iterator(test.input, test.expected_output)
       IN  \A i \in 1..Len(stream) : stream[i].ok

\* C10: put_file(f, c) leaves get_file(f) returning c and changes the
\* document at the key f only: every other entry, the binary directory and
\* the build commands are what they were.
C10_PutFileChangesOneKey ==
    [][ \A f \in FileNames, file_cache \in FileCaches :
          (disk.exists /\ put_file_call(f, file_cache))
          => /\ result' = "ok"
             /\ get_file(disk', f) =
                   [ok |-> TRUE, error |-> "", value |-> Some(file_cache)]
             /\ \A g \in FileNames \ {f} : get_file(disk', g) = get_file(disk, g)
             /\ DOMAIN Registry(disk') = DOMAIN Registry(disk) \cup {f}
             /\ disk'.json.binary_dir_path = disk.json.binary_dir_path
             /\ disk'.json.languages_config = disk.json.languages_config
             /\ disk'.json.no_readme = disk.json.no_readme ]_vars

\* C10 witness: an entry with two tests was stored for a.c while b.c had
\* another entry, and both are in the registry
C10_Witness ==
    /\ inv.entry = "put_file"
    /\ inv.file = "a.c"
    /\ Len(inv.tests) = 2
    /\ DOMAIN Registry(disk) = {"a.c", "b.c"}
    /\ Registry(disk)["a.c"].tests = inv.tests
    /\ Registry(disk)["b.c"] # Registry(disk)["a.c"]

\* C11: on a file that has an entry, an add appends its test at the end of
\* the tests list and keeps the earlier tests and the source_hash, and the
\* decision step of a run keeps the tests list, so that the list is the
\* added tests in the order of addition.
C11_AddAppendsRunKeeps ==
    [][ \A f \in RunFiles :
          f \in DOMAIN Registry(disk)
          => LET old == Registry(disk)[f]
             IN  /\ \A test \in TestPool :
                       add(f, test)
                       => Registry(disk')[f] =
                             FileCache(old.source_hash, Append(old.tests, test))
                 /\ (Begins(RunEntries) /\ inv'.file = f)
                    => /\ f \in DOMAIN Registry(disk')
                       /\ Registry(disk')[f].tests = old.tests ]_vars

\* C11 with the runs that share the three-branch match only: holds
C11_AddAppendsMatchKeeps ==
    [][ \A f \in RunFiles :
          f \in DOMAIN Registry(disk)
          => LET old == Registry(disk)[f]
             IN  /\ \A test \in TestPool :
                       add(f, test)
                       => Registry(disk')[f] =
                             FileCache(old.source_hash, Append(old.tests, test))
                 /\ (Begins(MatchEntries) /\ inv'.file = f)
                    => /\ f \in DOMAIN Registry(disk')
                       /\ Registry(disk')[f].tests = old.tests ]_vars

\* C12: nothing orders two invocations inside put_file.  When both have
\* stored, an invocation that had loaded before the other stored has left
\* the document as it loaded it plus its own key, the other's entry is what
\* it was before; when neither store was late, both entries are in it.
C12_LateStoreOverwrites ==
    (\A w \in Writers : writers[w].pc = "stored")
    => /\ \A w \in Writers :
            writers[w].stale
            => Registry(disk) =
                  Insert(writers[w].files.files, writers[w].filename,
                         writers[w].file_cache)
       /\ (\A w \in Writers : ~writers[w].stale)
          => \A w \in Writers :
                get_file(disk, writers[w].filename).value = Some(writers[w].file_cache)

\* C12 witness: both invocations have stored, on different file names, and
\* the document has no entry for one of the two names
C12_Witness ==
    /\ \A w \in Writers : writers[w].pc = "stored"
    /\ writers["first"].filename # writers["second"].filename
    /\ \E w \in Writers :
          /\ writers[w].stale
          /\ \E v \in Writers \ {w} : get_file(disk, writers[v].filename).value = None

\* C13: on a project that has no document, get_file, put_file and
\* get_config return the NotFound error, and the directory still has no
\* document afterwards.
C13_MissingDocumentIsNotFound ==
    [][ ~disk.exists
        => /\ \A f \in FileNames :
                 /\ get_file(disk, f) = [ok |-> FALSE, error |-> "NotFound", value |-> None]
                 /\ get_file_call(f) => (result' = "NotFound" /\ disk' = disk)
           /\ \A f \in FileNames, file_cache \in FileCaches :
                 /\ put_file(disk, f, file_cache) =
                       [ok |-> FALSE, error |-> "NotFound", disk |-> disk]
                 /\ put_file_call(f, file_cache) => (result' = "NotFound" /\ disk' = disk)
           /\ get_config(disk) = [ok |-> FALSE, error |-> "NotFound", value |-> None]
           /\ get_config_call => (result' = "NotFound" /\ disk' = disk) ]_vars

\* C13 witness: put_file was called where there is no document, it returned
\* NotFound and there is still no document
C13_Witness ==
    /\ inv.entry = "put_file"
    /\ result = "NotFound"
    /\ ~disk.exists

\* the record a line `{in}->{out}` denotes
FormRecord(line) ==
    OkItem(SubSeq(line, 2, find(line, "}") - 1),
           SubSeq(line, find(line, ">") + 2, Len(line) - 1))

\* the items next() has yielded are the first records of `records`, and all
\* of them once it has returned None
YieldsExactly(records) ==
    /\ Len(parsed.items) <= Len(records)
    /\ \A i \in 1..Len(parsed.items) : parsed.items[i] = records[i]
    /\ parsed.ended => Len(parsed.items) = Len(records)

\* C14: with the default flags, a file of N lines `{in_i}->{out_i}` yields
\* the N records {in_i, out_i} in file order, then the end of the sequence.
C14_FormLinesYieldRecords ==
    parsed.text \in FormTexts
    => YieldsExactly([i \in 1..Len(parsed.text) |-> FormRecord(parsed.text[i])])

\* C14 for the files in which no in_i is empty: holds
C14_NonEmptyInputsYieldRecords ==
    (/\ parsed.text \in FormTexts
     /\ \A i \in 1..Len(parsed.text) : FormRecord(parsed.text[i]).input # <<>>)
    => YieldsExactly([i \in 1..Len(parsed.text) |-> FormRecord(parsed.text[i])])

\* the bodies of the blocks of a line made of blocks, in order
RECURSIVE BlockRecords(_)
BlockRecords(line) ==
    IF line = <<>> THEN <<>>
    ELSE LET close == find(line, "}")
         IN  <<OkItem(SubSeq(line, 2, close - 1), <<>>)>>
             \o BlockRecords(SubSeq(line, close + 1, Len(line)))

\* the records of the lines from the index-th on
RECURSIVE TextBlockRecords(_, _)
TextBlockRecords(text, index) ==
    IF index > Len(text) THEN <<>>
    ELSE BlockRecords(text[index]) \o TextBlockRecords(text, index + 1)

\* C15: with standalone enabled, every top-level block yields a record with
\* the block as input and an empty expected output: K blocks, K records.
C15_StandaloneBlocksYieldRecords ==
    parsed.text \in BlockTexts
    => YieldsExactly(TextBlockRecords(parsed.text, 2))

\* C15 for the files with one block on each line: holds
C15_OneBlockALine ==
    (/\ parsed.text \in BlockTexts
     /\ \A i \in 2..Len(parsed.text) : Len(BlockRecords(parsed.text[i])) = 1)
    => YieldsExactly(TextBlockRecords(parsed.text, 2))

\* the characters scanned by the last call of next(), as indices
Events == 1..Len(parsed.scanned)

\* a '}' that the last call of next() read with no block open
UnmatchedClose(i) ==
    /\ parsed.scanned[i].chr = "}"
    /\ ~parsed.scanned[i].ignored
    /\ parsed.scanned[i].stack <= 0

\* C16: a `}` read while the nesting counter is zero makes next() return
\* the unmatched-bracket error at once, no record; a record is only ever
\* returned by a `}` read at depth one, and the only character ever skipped
\* is the `n` of an escape.
C16_UnmatchedCloseIsError ==
    \A i \in Events :
          /\ UnmatchedClose(i)
             => /\ parsed.scanned[i].outcome = "Bracket not matched"
                /\ i = Len(parsed.scanned)
                /\ parsed.items # <<>>
                /\ parsed.items[Len(parsed.items)] = ErrItem
                /\ ~parsed.ended
                /\ it.stack = parsed.scanned[i].stack - 1
          /\ parsed.scanned[i].outcome \in {"record", "input"}
             => parsed.scanned[i].stack = 1
          /\ parsed.scanned[i].ignored => parsed.scanned[i].chr = "n"

\* C16: next() has just read a `}` with the counter at zero
C16_Witness ==
    \E i \in Events : UnmatchedClose(i) /\ parsed.scanned[i].stack = 0

\* a `}` that the last call of next() read at depth one, standalone
\* disabled, with a non-empty input held and not exactly one arrow counted
MispipedClose(i) ==
    /\ parsed.scanned[i].chr = "}"
    /\ ~parsed.scanned[i].ignored
    /\ parsed.scanned[i].stack = 1
    /\ ~parsed.scanned[i].states.standalone
    /\ parsed.scanned[i].input # <<>>
    /\ parsed.scanned[i].arrow_amount # 1

\* C17: with standalone disabled, a second top-level block that closes with
\* zero or two arrows since the input block closed yields a format error and
\* no record: every line `{in}{out}` or `{in}->->{out}` yields one error.
C17_MispipedPairIsError ==
    parsed.text \in MispipedTexts
    => YieldsExactly([i \in 1..Len(parsed.text) |-> ErrItem])

\* C17 when the input held is not empty: holds
C17_HeldInputMispipedIsError ==
    /\ \A i \in Events :
          MispipedClose(i)
          => /\ parsed.scanned[i].outcome = "must once be piped"
             /\ i = Len(parsed.scanned)
             /\ parsed.items # <<>>
             /\ parsed.items[Len(parsed.items)] = ErrItem
    /\ (parsed.text \in MispipedTexts /\ parsed.text[1][2] # "}")
       => YieldsExactly([i \in 1..Len(parsed.text) |-> ErrItem])

\* a `}` of the last call of next() that closed a top-level block whose
\* text was used, as the input or as the expected output
UsedClose(i) == parsed.scanned[i].outcome \in {"record", "input"}

\* no whitespace at either end of s
Stripped(s) == s = <<>> \/ (Head(s) \notin Whitespace /\ s[Len(s)] \notin Whitespace)

\* no whitespace at either end of s nor of any of its lines
StrippedLines(s) ==
    /\ Stripped(s)
    /\ \A k \in 1..Len(split_lines(s)) : Stripped(split_lines(s)[k])

\* what the block closed by the i-th character is used as
UsedAs(i) ==
    IF parsed.scanned[i].states.trim
    THEN trim_inner_buffer(parsed.scanned[i].buffer)
    ELSE parsed.scanned[i].buffer

\* C18: the text of a top-level block that closes is used stripped, overall
\* and line by line, when trim is enabled, and exactly as buffered when trim
\* is disabled; it is used as the input of the record in progress or as a
\* field of the record returned.
C18_TrimStripsElseExact ==
    \A i \in Events :
        UsedClose(i)
        => /\ parsed.scanned[i].used = UsedAs(i)
           /\ parsed.scanned[i].states.trim => StrippedLines(parsed.scanned[i].used)
           /\ parsed.scanned[i].outcome = "input"
              => parsed.scanned[i + 1].input = UsedAs(i)
           /\ parsed.scanned[i].outcome = "record"
              => /\ i = Len(parsed.scanned)
                 /\ parsed.items # <<>>
                 /\ parsed.items[Len(parsed.items)]
                    = IF parsed.scanned[i].input = <<>>
                      THEN OkItem(UsedAs(i), <<>>)
                      ELSE OkItem(parsed.scanned[i].input, UsedAs(i))

\* C18: a record was returned whose block was buffered with whitespace
\* around it, trim disabled
C18_Witness ==
    \E i \in Events :
        /\ parsed.scanned[i].outcome = "record"
        /\ ~parsed.scanned[i].states.trim
        /\ ~StrippedLines(parsed.scanned[i].buffer)
        /\ parsed.items[Len(parsed.items)] = OkItem(parsed.scanned[i].buffer, <<>>)

\* a `-` that the last call of next() read inside a block
DashInBlock(i) ==
    /\ parsed.scanned[i].chr = "-"
    /\ ~parsed.scanned[i].ignored
    /\ parsed.scanned[i].stack >= 1

\* C19: every `-` inside a brace body that `>` does not follow is pushed on
\* the buffer as content, the `-` that ends its physical line included.
C19_DashKeptLiterally ==
    \A i \in Events :
        (DashInBlock(i) /\ parsed.scanned[i].follows # Some(">"))
        => /\ parsed.scanned[i].pushed = <<"-">>
           /\ parsed.scanned[i + 1].buffer = Append(parsed.scanned[i].buffer, "-")

\* C19 for a `-` that another character than `>` follows on its line: holds
C19_DashBeforeCharKept ==
    \A i \in Events :
        (/\ DashInBlock(i)
         /\ parsed.scanned[i].follows # None
         /\ parsed.scanned[i].follows # Some(">"))
        => /\ parsed.scanned[i].pushed = <<"-">>
           /\ parsed.scanned[i + 1].buffer = Append(parsed.scanned[i].buffer, "-")

\* a backslash that the last call of next() read inside a block
BackslashInBlock(i) ==
    /\ parsed.scanned[i].chr = "\\"
    /\ ~parsed.scanned[i].ignored
    /\ parsed.scanned[i].stack >= 1

\* the end of a physical line that the last call of next() reached inside a block
LineEndInBlock(i) ==
    /\ parsed.scanned[i].chr = ""
    /\ parsed.scanned[i].stack >= 1

\* what the i-th character pushed is what the buffer gained
Gained(i, pushed) ==
    /\ parsed.scanned[i].pushed = pushed
    /\ i < Len(parsed.scanned)
       => parsed.scanned[i + 1].buffer = parsed.scanned[i].buffer \o pushed

\* C20: inside a block, with explicit-newline enabled the escape `\n` adds
\* one newline and its `n` is skipped, any other backslash is kept and a
\* physical line end adds nothing; with explicit-newline disabled every
\* backslash is kept and every physical line end adds one newline.
C20_NewlinesAndBackslashes ==
    \A i \in Events :
        /\ (BackslashInBlock(i) /\ parsed.scanned[i].states.explicit_newline)
           => IF parsed.scanned[i].follows = Some("n")
              THEN /\ Gained(i, <<NL>>)
                   /\ parsed.scanned[i + 1].chr = "n"
                   /\ parsed.scanned[i + 1].ignored
                   /\ Gained(i + 1, <<>>)
              ELSE Gained(i, <<"\\">>)
        /\ (BackslashInBlock(i) /\ ~parsed.scanned[i].states.explicit_newline)
           => Gained(i, <<"\\">>)
        /\ LineEndInBlock(i)
           => Gained(i, IF parsed.scanned[i].states.explicit_newline THEN <<>> ELSE <<NL>>)

\* C20 but for the backslash that ends its physical line under
\* explicit-newline: holds
C20_ButBackslashEndingLine ==
    \A i \in Events :
        /\ (/\ BackslashInBlock(i)
            /\ parsed.scanned[i].states.explicit_newline
            /\ parsed.scanned[i].follows # None)
           => IF parsed.scanned[i].follows = Some("n")
              THEN /\ Gained(i, <<NL>>)
                   /\ parsed.scanned[i + 1].chr = "n"
                   /\ parsed.scanned[i + 1].ignored
                   /\ Gained(i + 1, <<>>)
              ELSE Gained(i, <<"\\">>)
        /\ (BackslashInBlock(i) /\ ~parsed.scanned[i].states.explicit_newline)
           => Gained(i, <<"\\">>)
        /\ LineEndInBlock(i)
           => Gained(i, IF parsed.scanned[i].states.explicit_newline THEN <<>> ELSE <<NL>>)

\* the flag a directive line names, as a field of the states; "" when it names none
FlagNamed(line) ==
    LET named(name) ==
            /\ Len(line) > Len(name)
            /\ SubSeq(line, Len(line) - Len(name) + 1, Len(line)) = name
    IN  CASE line = UnrecognizedLine -> ""
          [] named(EXPLICIT_NEWLINE) -> "explicit_newline"
          [] named(STANDALONE) -> "standalone"
          [] named(TRIM) -> "trim"

\* the flags after the directive lines from the index-th to the last but one
RECURSIVE Directed(_, _, _)
Directed(states, text, index) ==
    IF index >= Len(text) THEN states
    ELSE Directed(IF FlagNamed(text[index]) = "" THEN states
                  ELSE [states EXCEPT ![FlagNamed(text[index])] =
                           ~(Len(text[index]) > 8 /\ SubSeq(text[index], 2, 8) = DISABLE)],
                  text, index + 1)

\* C21: the flags start as standalone=false, trim=true, explicit-newline=false;
\* `#enable:F` and `#F` set F, `#disable:F` clears it, a directive naming no
\* flag changes none; directive lines inside a block add nothing to the
\* buffer and leave the nesting counter and the arrow count alone.
C21_DirectivesSetFlagsOnly ==
    /\ (parsed.scanned = <<>> /\ parsed.items = <<>> /\ ~parsed.ended)
       => it.states = [standalone |-> FALSE, trim |-> TRUE, explicit_newline |-> FALSE]
    /\ (parsed.text \in DirectiveTexts /\ parsed.scanned # <<>>)
       => /\ Len(parsed.scanned) >= 4
          /\ parsed.scanned[3].states
             = [standalone |-> FALSE, trim |-> TRUE, explicit_newline |-> FALSE]
          /\ parsed.scanned[4].chr = "}"
          /\ parsed.scanned[4].states = Directed(parsed.scanned[3].states, parsed.text, 2)
          /\ parsed.scanned[4].buffer = <<"1", NL>>
          /\ parsed.scanned[4].stack = 1
          /\ parsed.scanned[4].arrow_amount = 0
          /\ it.states = parsed.scanned[4].states

\* C21: directive lines inside a block have set standalone and cleared trim
C21_Witness ==
    /\ parsed.text \in DirectiveTexts
    /\ parsed.scanned # <<>>
    /\ it.states = [standalone |-> TRUE, trim |-> FALSE, explicit_newline |-> FALSE]
    /\ parsed.items = <<OkItem(<<"1", NL>>, <<>>)>>

\* C22: at the end of the file next() returns the end of the sequence, no
\* item, whatever is open or waiting; every call that returns an item has
\* consumed at least one more line, so the items are at most as many as the
\* lines and the calls come to an end.
C22_EndOfFileEndsSequence ==
    [][/\ it.reader = <<>>
          => (parsed'.ended /\ parsed'.items = parsed.items /\ it' = it)
       /\ ~parsed'.ended
          => /\ Len(parsed'.items) = Len(parsed.items) + 1
             /\ Len(it'.reader) < Len(it.reader)
       /\ Len(parsed'.items) + Len(it'.reader) <= Len(parsed'.text)]_vars

\* C22: the sequence has ended with a block open and an input waiting
C22_Witness ==
    /\ parsed.ended
    /\ it.stack >= 1
    /\ it.test_buffer.input # <<>>
    /\ parsed.items = <<>>

\* the records of a definition file that yields no error, <<>> for one that does
Records(text) ==
    IF \A k \in 1..Len(collect(TestFileIterator_new(text))) :
          collect(TestFileIterator_new(text))[k].ok
    THEN collect(TestFileIterator_new(text))
    ELSE <<>>

\* both definition files parse without an error
ErrorFree ==
    \A side \in 1..2 : \A k \in 2..Len(parsed.text[side]) : parsed.text[side][k] # <<"}">>

\* the k-th pair of two streams of records
Pairs(inputs, outputs) ==
    [k \in 1..(IF Len(inputs) <= Len(outputs) THEN Len(inputs) ELSE Len(outputs)) |->
        OkItem(inputs[k].input, outputs[k].input)]

\* C23: merging an input stream of m records and an output stream of n
\* records, neither with a parse error, yields min(m, n) records, the k-th
\* made of the inputs of the k-th record of each stream, and then ends.
C23_MergeYieldsMinPairs ==
    ErrorFree
    => /\ Len(Records(parsed.text[1])) = Len(parsed.text[1]) - 1
       /\ Len(Records(parsed.text[2])) = Len(parsed.text[2]) - 1
       /\ YieldsExactly(Pairs(Records(parsed.text[1]), Records(parsed.text[2])))

\* C23: three input records merged with two output records have yielded two
\* pairs and the end
C23_Witness ==
    /\ ErrorFree
    /\ Len(parsed.text[1]) = 4
    /\ Len(parsed.text[2]) = 3
    /\ parsed.ended
    /\ Len(parsed.items) = 2
    /\ parsed.items[2].input # parsed.items[2].expected_output

\* evaluate has returned ranges for the expression
Evaluated(expressions, ranges) ==
    (selection.expressions = expressions /\ selection.evaluated # None)
    => selection.evaluated = Some(OkRanges(ranges))

\* the sub index written, or the default of the side it is missing on
SubOr(sub, default) == IF sub = None THEN default ELSE sub[1]

\* C24: N evaluates to [{N, None}], N.M to [{N, M..=M}], and A[.a]-A[.b] to
\* [{A, a..=b}] with a missing a taken as 1 and a missing b as usize::MAX.
C24_SinglePiece ==
    \A main \in MainNumbers :
        /\ Evaluated(to_string(main), <<TestsRange(main, None)>>)
        /\ \A sub \in SubNumbers :
              Evaluated(Endpoint(main, Some(sub)), <<TestsRange(main, Some(<<sub, sub>>))>>)
        /\ \A sub_start \in SubIndexes, sub_end \in SubIndexes :
              Evaluated(RangeText(main, sub_start, main, sub_end),
                        <<TestsRange(main, Some(<<SubOr(sub_start, 1),
                                                  SubOr(sub_end, usize_MAX)>>))>>)

\* C24: `2.3-2` has been evaluated to [{2, 3..=usize::MAX}]
C24_Witness ==
    /\ selection.expressions = <<"2", ".", "3", "-", "2">>
    /\ selection.evaluated = Some(OkRanges(<<TestsRange(2, Some(<<3, usize_MAX>>))>>))

\* C25: A[.a]-B[.b] with A < B evaluates to B - A + 1 selectors, main
\* indices A to B in increasing order: {A, a..=usize::MAX}, then {k, None}
\* for every k strictly between, then {B, 1..=b}.
C25_RangeAcrossTests ==
    \A main_start \in MainNumbers, main_end \in MainNumbers :
        main_start < main_end
        => \A sub_start \in SubIndexes, sub_end \in SubIndexes :
              Evaluated(RangeText(main_start, sub_start, main_end, sub_end),
                 [k \in 1..(main_end - main_start + 1) |->
                     IF k = 1
                     THEN TestsRange(main_start, Some(<<SubOr(sub_start, 1), usize_MAX>>))
                     ELSE IF k = main_end - main_start + 1
                     THEN TestsRange(main_end, Some(<<1, SubOr(sub_end, usize_MAX)>>))
                     ELSE TestsRange(main_start + k - 1, None)])

\* C25: `1.3-4.3` has been evaluated to four selectors
C25_Witness ==
    /\ selection.expressions = <<"1", ".", "3", "-", "4", ".", "3">>
    /\ selection.evaluated # None
    /\ selection.evaluated[1].ok
    /\ Len(selection.evaluated[1].value) = 4
    /\ selection.evaluated[1].value[3] = TestsRange(3, None)

\* the results of process_expression on the pieces from the index-th on,
\* each trimmed, one after the other
RECURSIVE Concatenated(_, _)
Concatenated(pieces, index) ==
    IF index > Len(pieces) THEN <<>>
    ELSE process_expression(trim(pieces[index])).value \o Concatenated(pieces, index + 1)

\* the pieces that are malformed
Malformed(pieces) == {k \in 1..Len(pieces) : ~process_expression(trim(pieces[k])).ok}

\* C26: evaluate of a comma-separated list returns the results of its
\* trimmed pieces, each evaluated on its own, concatenated in list order;
\* with a malformed piece it returns the error of the first one and no ranges.
C26_ListConcatenatesOrFails ==
    selection.evaluated # None
    => IF Malformed(split(selection.expressions, ",")) = {}
       THEN selection.evaluated[1]
            = OkRanges(Concatenated(split(selection.expressions, ","), 1))
       ELSE \E k \in Malformed(split(selection.expressions, ",")) :
               /\ \A j \in Malformed(split(selection.expressions, ",")) : k <= j
               /\ selection.evaluated[1]
                  = process_expression(trim(split(selection.expressions, ",")[k]))

\* C26: `1,2.2,3-4` has been evaluated to the four selectors of its pieces
C26_Witness ==
    /\ selection.expressions = <<"1", ",", "2", ".", "2", ",", "3", "-", "4">>
    /\ selection.evaluated
       = Some(OkRanges(<<TestsRange(1, None), TestsRange(2, Some(<<2, 2>>)),
                         TestsRange(3, Some(<<1, usize_MAX>>)),
                         TestsRange(4, Some(<<1, usize_MAX>>))>>))

\* the expression is one piece: no comma, nothing to trim
OnePiece == find(selection.expressions, ",") = 0 /\ find(selection.expressions, " ") = 0

\* the segments of a piece: what is between its '-' and '.'
Sides == split(selection.expressions, "-")
NonNumeric == {segment \in UNION {{split(Sides[i], ".")[j] : j \in 1..Len(split(Sides[i], "."))} :
                                     i \in 1..Len(Sides)} :
                  segment = <<>> \/ \E k \in 1..Len(segment) : ~is_digit(segment[k])}

\* evaluate has returned an error that carries one of the tokens
Names(tokens) ==
    /\ ~selection.evaluated[1].ok
    /\ selection.evaluated[1].part \in tokens

\* C27: a malformed piece yields an error that carries the bad token: the
\* piece itself when it has more than one `-`, else a segment of it that is
\* not a number.
C27_ErrorCarriesBadToken ==
    (OnePiece /\ selection.evaluated # None)
    => /\ Len(Sides) > 2 => Names({selection.expressions})
       /\ (Len(Sides) <= 2 /\ NonNumeric # {}) => Names(NonNumeric)

\* C27 for a piece with at most one `-` and at most one `.` on each side of
\* it, one of whose segments is not a number: holds
C27_NonNumericSegmentCarried ==
    (/\ OnePiece
     /\ selection.evaluated # None
     /\ Len(Sides) <= 2
     /\ \A i \in 1..Len(Sides) : Len(split(Sides[i], ".")) <= 2
     /\ NonNumeric # {})
    => /\ Names(NonNumeric)
       /\ selection.evaluated[1].error = "InvalidNumber"

\* C28: every range evaluate returns has a main index of at least 1.
C28_MainIndexPositive ==
    (selection.evaluated # None /\ selection.evaluated[1].ok)
    => \A k \in 1..Len(selection.evaluated[1].value) :
          selection.evaluated[1].value[k].main_test >= 1

\* run_at is at a selector
AtSelector == pc = "exec" /\ inv.entry = "test_run_at" /\ jobs # <<>>

\* run_at is at a selector of a file-linked test that is registered
AtLinkedTest ==
    /\ AtSelector
    /\ 1 <= jobs[1].main_test
    /\ jobs[1].main_test <= Len(inv.tests)
    /\ inv.tests[jobs[1].main_test].kind = "RefTest"

\* the definition stream of the file-linked test of the selector
Stream ==
    _test_iterator(inv.tests[jobs[1].main_test].input,
                   inv.tests[jobs[1].main_test].expected_output)

\* the position is one the selector asks for: a <= k <= b, or any with no sub
Selected(k) ==
    \/ jobs[1].sub_tests = None
    \/ jobs[1].sub_tests[1][1] <= k /\ k <= jobs[1].sub_tests[1][2]

\* the positions of the records executed so far for the selector, in order
Executed == [j \in 1..Len(ref.detailed_status) |-> ref.detailed_status[j].ref_test_index + 1]

\* the step returns from _ref_test_run_core with its RunResult::RefTest
RefTestReturns ==
    /\ pc' = "done" \/ jobs' # jobs
    /\ last'.exec = "none"
    /\ last'.build = "none"
    /\ last'.main = jobs[1].main_test

TableValue(piece) ==
    CASE piece = TEMPLATE_CONFIG_FILE -> template.source_path
      [] piece = TEMPLATE_CONFIG_FILENAME -> file_name(template.source_path)[1]
      [] piece = <<"$", "(", "D", "I", "R", ")">> -> parent(template.source_path)[1]
      [] piece = <<"$", "(", "D", "I", "R", "N", "A", "M", "E", ")">> ->
            file_name(parent(template.source_path)[1])[1]
      [] piece = TEMPLATE_CONFIG_BINARY_DIR -> template.binary_dir_path
      [] piece = TEMPLATE_CONFIG_EXE_EXTENSION -> exe_extension(template.windows)
      [] OTHER -> piece

\* the command made of the pieces, every macro replaced by its table value
Expanded(pieces) == Flattened([i \in 1..Len(pieces) |-> TableValue(pieces[i])])

\* the replacement has been made, without an error
Replaced == template.replaced # None /\ template.replaced[1].ok

\* C30: every occurrence of each macro is replaced by its value of the
\* table: `$(DIR)` by the path of the parent directory of the source,
\* `$(DIRNAME)` by the name of that directory.
C30_MacrosReplacedByTable ==
    Replaced
    => \A pieces \in PieceLists :
          template.config = Flattened(pieces)
          => template.replaced[1].config = Expanded(pieces)

\* C30 for the commands without `$(DIR)` and `$(DIRNAME)`: holds
C30_OtherMacrosReplaced ==
    Replaced
    => \A pieces \in PieceLists :
          (/\ template.config = Flattened(pieces)
           /\ \A i \in 1..Len(pieces) :
                 pieces[i] \notin {TEMPLATE_CONFIG_DIRNAME, TEMPLATE_CONFIG_DIR})
          => template.replaced[1].config = Expanded(pieces)

\* C39: a range A[.a]-B[.b] with A > B evaluates to the two selectors
\* {A, a..=usize::MAX} and {B, 1..=b} and to nothing between.
C39_DescendingRangeTwoSelectors ==
    \A main_start \in MainNumbers \cup {usize_MAX}, main_end \in MainNumbers :
        main_start > main_end
        => \A sub_start \in SubIndexes, sub_end \in SubIndexes :
              Evaluated(RangeText(main_start, sub_start, main_end, sub_end),
                        <<TestsRange(main_start, Some(<<SubOr(sub_start, 1), usize_MAX>>)),
                          TestsRange(main_end, Some(<<1, SubOr(sub_end, usize_MAX)>>))>>)

\* C39, for A below usize::MAX: the two selectors and nothing between
C39_BelowMaxTwoSelectors ==
    \A main_start \in MainNumbers, main_end \in MainNumbers :
        main_start > main_end
        => \A sub_start \in SubIndexes, sub_end \in SubIndexes :
              Evaluated(RangeText(main_start, sub_start, main_end, sub_end),
                        <<TestsRange(main_start, Some(<<SubOr(sub_start, 1), usize_MAX>>)),
                          TestsRange(main_end, Some(<<1, SubOr(sub_end, usize_MAX)>>))>>)

\* C31: whoever writes the literal input to the child's stdin is never
\* blocked on a full stdin pipe while the child is blocked on a full stdout
\* pipe that nobody is draining.
C31_NeverBlockedBothWays ==
    ~(WritingStdinBlocked /\ ChildBlockedOnStdout /\ pipes.parent # "wait_with_output")

\* C31, for execute_binary of execute/core.rs: until the parent has its
\* output, the writer thread, the child or the parent can take a step
C31_ExecuteBinaryNeverStuck ==
    (pipes.variant = "execute_binary" /\ pipes.parent # "returned")
    => ENABLED NextPipes

\* C31, for both: once the child has exited the parent is never stuck
C31_CompletesOnceChildExited ==
    (pipes.child = "exited" /\ pipes.parent # "returned")
    => ENABLED NextPipes

\* C32: initialize on a project whose document exists writes nothing: the
\* document, and so every entry, the binary directory and the build
\* commands read from it, is the same after the call as before.
C32_InitializeKeepsDocument ==
    [][ (disk.exists /\ initialize)
        => /\ disk' = disk
           /\ get_config(disk') = get_config(disk)
           /\ \A f \in FileNames : get_file(disk', f) = get_file(disk, f) ]_vars

\* C32 witness: initialize has returned on a project with registered entries
C32_Witness ==
    /\ inv.entry = "initialize"
    /\ result = "ok"
    /\ disk.exists
    /\ Registry(disk) # <<>>

\* the invocation skipped the build because the stored hash equalled the
\* digest of the source, and its latest step executed the binary
ExecutedOnHit ==
    /\ pc = "exec"
    /\ inv.entry \in TestEntries
    /\ decision.made
    /\ decision.had_entry
    /\ decision.stored_hash = decision.target
    /\ ~decision.built
    /\ last.exec \in {"Successful", "Failed"}

\* C33: a test run that skipped the build on a cache hit executes a binary
\* built from source content whose digest is the digest of the source now.
C33_NoStaleBinaryOnHit ==
    ExecutedOnHit
    => /\ binaries[inv.file] # NoBinary
       /\ target_hashed(binaries[inv.file]) = target_hashed(source[inv.file])

\* run or run_at is at a file-linked test that is registered
AtRefTest ==
    /\ pc = "exec"
    /\ inv.entry \in TestEntries
    /\ jobs # <<>>
    /\ ValidMain(jobs[1])
    /\ CurrentTest.kind = "RefTest"

\* the locals _ref_test_run_core returns its result from: the loop has set
\* only_run_at_ran when it stops at a record inside a given range
Locals ==
    IF ref.inner_index < Len(Stream) /\ jobs[1].sub_tests # None
    THEN [ref EXCEPT !.only_run_at_ran = TRUE]
    ELSE ref

\* the RunResult::RefTest the step returns
Returned == ref_test_result(Locals, jobs[1].sub_tests)

\* C34: every result the file-linked runner returns has passed_test <=
\* total_test, as many detailed statuses as total_test, strictly increasing
\* 0-based record indices in them, and, when a record was in range, status
\* true iff passed_test = total_test.
C34_ResultIsConsistent ==
    [][ (AtRefTest /\ RefTestReturns)
        => /\ Returned.passed_test <= Returned.total_test
           /\ Len(Returned.detailed_status) = Returned.total_test
           /\ \A j \in 1..Len(Returned.detailed_status) :
                 /\ Returned.detailed_status[j].ref_test_index \in 0..(Len(Stream) - 1)
                 /\ j > 1 => Returned.detailed_status[j - 1].ref_test_index
                             < Returned.detailed_status[j].ref_test_index
           /\ (jobs[1].sub_tests = None \/ Locals.only_run_at_ran)
              => (Returned.status <=> Returned.passed_test = Returned.total_test) ]_vars

\* C34 witness: the runner is about to return a result of two records of
\* which one passed
C34_Witness ==
    /\ AtRefTest
    /\ ref.inner_index = Len(Stream)
    /\ Returned.total_test = 2
    /\ Returned.passed_test = 1
    /\ ~Returned.status

\* C35: a file-linked test of which no record was executed (an empty
\* definition file, a parse error at the first record) is summarised without
\* a runtime failure.
C35_NoRecordCompletes ==
    [][ (AtRefTest /\ RefTestReturns /\ Returned.detailed_status = <<>>)
        => result' # "panic" ]_vars

\* C35, for the tests of which a record was executed: the summary is reached
C35_ExecutedRecordsComplete ==
    [][ (AtRefTest /\ RefTestReturns /\ Returned.detailed_status # <<>>)
        => result' # "panic" ]_vars

\* the first position inside the range that is a parse error, or the length
\* of the stream plus one
FirstError ==
    LET errors == {k \in 1..Len(Stream) : Selected(k) /\ ~Stream[k].ok}
    IN  IF errors = {} THEN Len(Stream) + 1
        ELSE CHOOSE k \in errors : \A j \in errors : k <= j

\* C36: with a sub-range, a record outside the range is passed over whatever
\* its parse result and the run goes on; a parse error inside the range ends
\* the run there; so the records executed are the ones inside the range
\* before the first parse error inside the range.
C36_OutOfRangeErrorsSkipped ==
    [][ (AtRefTest /\ jobs[1].sub_tests # None)
        => /\ (ref.inner_index < Len(Stream) /\ ~Selected(ref.inner_index + 1))
              => /\ ref' = [ref EXCEPT !.inner_index = @ + 1]
                 /\ pc' = pc
                 /\ jobs' = jobs
                 /\ last'.exec = "none"
           /\ (ref.inner_index < Len(Stream) /\ Selected(ref.inner_index + 1)
               /\ ~Stream[ref.inner_index + 1].ok)
              => /\ RefTestReturns
                 /\ ref.inner_index + 1 = FirstError
           /\ RefTestReturns
              => {Executed[j] : j \in 1..Len(Executed)}
                 = {k \in 1..(FirstError - 1) : Selected(k)} ]_vars

\* C36 witness: with the range 2..=3 on a stream whose first record is a
\* parse error, the second and third records have been executed
C36_Witness ==
    /\ AtRefTest
    /\ jobs[1].sub_tests = Some(<<2, 3>>)
    /\ Len(Stream) = 3
    /\ ~Stream[1].ok
    /\ ref.inner_index = 3
    /\ Executed = <<2, 3>>

\* a `}` of the last call of next() that closed a top-level block with
\* standalone disabled
PairedClose(i) ==
    /\ parsed.scanned[i].chr = "}"
    /\ ~parsed.scanned[i].ignored
    /\ parsed.scanned[i].stack = 1
    /\ ~parsed.scanned[i].states.standalone

\* C37: with standalone disabled, a top-level block that closes while the
\* stored input text is empty is taken as the input, whatever the number of
\* arrows counted, and next() does not return at it; so the block that
\* follows an empty input block is the input, and no record has the empty
\* input.
C37_EmptyInputIsNoInput ==
    \A i \in Events :
        PairedClose(i)
        => /\ parsed.scanned[i].input = <<>>
              => /\ parsed.scanned[i].outcome = "input"
                 /\ i < Len(parsed.scanned)
                 /\ parsed.scanned[i + 1].input = UsedAs(i)
                 /\ parsed.scanned[i + 1].arrow_amount = 0
           /\ parsed.scanned[i].input # <<>>
              => parsed.scanned[i].outcome \in {"record", "must once be piped"}
           /\ \A j \in Events :
                 (/\ i < j
                  /\ PairedClose(j)
                  /\ parsed.scanned[i].outcome = "input"
                  /\ parsed.scanned[i].used = <<>>
                  /\ \A k \in (i + 1)..(j - 1) : parsed.scanned[k].outcome = "")
                 => /\ parsed.scanned[j].outcome = "input"
                    /\ j < Len(parsed.scanned)
                    /\ parsed.scanned[j + 1].input = UsedAs(j)

\* C37 witness: after an empty input block and one arrow, a block that is
\* not empty was taken as the input
C37_Witness ==
    \E i \in Events, j \in Events :
        /\ i < j
        /\ PairedClose(i)
        /\ PairedClose(j)
        /\ parsed.scanned[i].outcome = "input"
        /\ parsed.scanned[i].used = <<>>
        /\ parsed.scanned[j].arrow_amount = 1
        /\ parsed.scanned[j].outcome = "input"
        /\ parsed.scanned[j].used # <<>>

\* the characters of the lines that are no directives, each line followed
\* by the mark of its end
RECURSIVE Typed(_)
Typed(lines) ==
    IF lines = <<>> THEN <<>>
    ELSE (IF is_state_modifier(Head(lines)) THEN <<>> ELSE Head(lines) \o <<"">>)
         \o Typed(Tail(lines))

\* the characters a call of next() read, the ends of lines marked
Read(scanned) == [i \in 1..Len(scanned) |-> scanned[i].chr]

\* C38: a call of next() reads whole physical lines from the first one not
\* yet read; when it returns an item it stops in a line, at a `}`, the rest
\* of that line is not read by this call nor by any later one, no newline
\* is pushed for it, and every item returned takes a line of its own.
C38_RestOfLineDiscarded ==
    [][ next
        => \E consumed \in 0..Len(it.reader) :
              /\ it'.reader = SubSeq(it.reader, consumed + 1, Len(it.reader))
              /\ IF parsed'.ended
                 THEN /\ consumed = Len(it.reader)
                      /\ Read(parsed'.scanned) = Typed(it.reader)
                 ELSE /\ consumed >= 1
                      /\ ~is_state_modifier(it.reader[consumed])
                      /\ Len(Read(parsed'.scanned))
                            > Len(Typed(SubSeq(it.reader, 1, consumed - 1)))
                      /\ Len(Read(parsed'.scanned))
                            < Len(Typed(SubSeq(it.reader, 1, consumed)))
                      /\ Read(parsed'.scanned)
                            = SubSeq(Typed(SubSeq(it.reader, 1, consumed)),
                                     1, Len(parsed'.scanned))
                      /\ parsed'.scanned[Len(parsed'.scanned)].chr = "}"
                      /\ it'.buffer \in {<<>>, parsed'.scanned[Len(parsed'.scanned)].buffer}
                      /\ Len(parsed'.items) <= Len(parsed.text) - Len(it'.reader) ]_vars

\* C38 witness: of a line of two standalone blocks the first was returned
\* and the file ended with no second record
C38_Witness ==
    /\ parsed.text = <<StandaloneLine, <<"{", "1", "}", "{", "1", "}">>>>
    /\ parsed.ended
    /\ parsed.items = <<OkItem(<<"1">>, <<>>)>>

-----------------------------------------------------------------------------
(* Source files in and under the project directory: execute/test.rs, execute/cache.rs *)

\* the project directory, where the commands run, and a directory under it
Directories == {"", "sub"}

\* source files by directory and name
Located == Directories \X FileNames

\* path.file_name(): the key of a source file in the registry
key_of(path) == path[2]

\* the one-component paths that exist in the current directory
InCurrentDirectory(files) == {key_of(path) : path \in {q \in DOMAIN files : q[1] = ""}}

\* the names of the source files that exist in any directory
Named(files) == {key_of(path) : path \in DOMAIN files}

\* a source file is written, new or over the one there
write_source(path) ==
    /\ pc = "idle"
    /\ \E c \in Contents :
          /\ path \in DOMAIN source => source[path] # c
          /\ source' = Insert(source, path, c)
    /\ UNCHANGED <<disk, binaries, pc, inv, jobs, ref, score, retry_builds, result,
                   decision, last>>
    /\ UNCHANGED <<writers, it, parsed, selection, template, pipes>>

\* a source file is deleted
remove_source(path) ==
    /\ pc = "idle"
    /\ path \in DOMAIN source
    /\ source' = Restrict(source, DOMAIN source \ {path})
    /\ UNCHANGED <<disk, binaries, pc, inv, jobs, ref, score, retry_builds, result,
                   decision, last>>
    /\ UNCHANGED <<writers, it, parsed, selection, template, pipes>>

\* add (execute/test.rs) of a source file in any directory: the entry is
\* kept under the file's name
add_located(path, test) ==
    /\ pc = "idle"
    /\ path \in DOMAIN source
    /\ LET found == get_file(disk, key_of(path))
           file_cache ==
               IF found.ok /\ found.value # None
               THEN FileCache(found.value[1].source_hash,
                              Append(found.value[1].tests, test))
               ELSE FileCache(target_hashed(source[path]), <<test>>)
           stored == put_file(disk, key_of(path), file_cache)
       IN  /\ Len(file_cache.tests) <= MaxTests
           /\ disk' = stored.disk
    /\ UNCHANGED <<source, binaries, pc, inv, jobs, ref, score, retry_builds, result,
                   decision, last>>
    /\ UNCHANGED <<writers, it, parsed, selection, template, pipes>>

\* erunner clean, run in the project directory
clean_located ==
    /\ pc = "idle"
    /\ disk' = clean(disk, InCurrentDirectory(source)).disk
    /\ UNCHANGED <<source, binaries, pc, inv, jobs, ref, score, retry_builds, result,
                   decision, last>>
    /\ UNCHANGED <<writers, it, parsed, selection, template, pipes>>

InitLocated ==
    /\ disk = [exists |-> TRUE, json |-> to_writer_pretty(InitialFiles(<<>>))]
    /\ source = <<>>
    /\ binaries = [f \in FileNames |-> NoBinary]
    /\ pc = "idle"
    /\ inv = NoInv
    /\ jobs = <<>>
    /\ ref = RefInit
    /\ score = 0
    /\ retry_builds = 0
    /\ result = ""
    /\ decision = NoDecision
    /\ last = NoStep
    /\ writers = NoWriters
    /\ it = NoIterator
    /\ parsed = NoParsed
    /\ selection = NoSelection
    /\ template = NoTemplate
    /\ pipes = NoPipes

NextLocated ==
    \/ \E path \in Located : write_source(path)
    \/ \E path \in Located : remove_source(path)
    \/ \E path \in Located : add_located(path, StringTest(<<"5">>, <<"2", "5">>))
    \/ clean_located

SpecLocated == InitLocated /\ [][NextLocated]_vars

\* the document but for its entries
Settings(d) == [from_reader(d.json) EXCEPT !.files = <<>>]

\* C40: clean keeps the entries whose source file exists in any directory,
\* each as it was, removes the others, and leaves the binary directory and
\* the build commands as they were.
C40_CleanKeepsExistingSources ==
    [][ clean_located
        => /\ from_reader(disk'.json).files
                = Restrict(from_reader(disk.json).files, Named(source))
           /\ Settings(disk') = Settings(disk) ]_vars

\* C40, for the current directory: clean keeps the entries whose name is a
\* file of the directory it runs in, each as it was, removes the others,
\* and leaves the binary directory and the build commands as they were.
C40_CleanKeepsCurrentDirectory ==
    [][ clean_located
        => /\ from_reader(disk'.json).files
                = Restrict(from_reader(disk.json).files, InCurrentDirectory(source))
           /\ Settings(disk') = Settings(disk) ]_vars

\* an entry whose file exists under the project directory only, and one
\* whose file is in the project directory
C40_Reached ==
    /\ DOMAIN source = {<<"sub", "a.c">>, <<"", "b.c">>}
    /\ DOMAIN from_reader(disk.json).files = {"b.c"}

====
